---- MODULE Spec2Model ----
(***************************************************************************)
(* Model of the vibe-coding-logger core (pkg/logger): the Logger with its  *)
(* level filter, the With* derivations, the entry construction of log, the *)
(* fan-out of writeEntry and the operation trackers.                       *)
(*                                                                         *)
(* Go values that are shared by reference (maps, the backing arrays of     *)
(* slices, *Entry, *vibeLogger, *OperationTracker) live in heaps: a        *)
(* sequence per kind, the index being the address.  A slice is the triple  *)
(* [arr, len, cap] of Go's slice header.                                   *)
(***************************************************************************)
EXTENDS Integers, Sequences, FiniteSets, TLC

\* -------------------------------------------------------------- bounds
MaxCalls == 3       \* calls the application makes on its Loggers
MaxClock == 1
MaxBatches == 1
MaxAttempts == 4       \* ticks of time.Now()

\* ------------------------------------------------------- program constants
DEBUG == 0
INFO == 1
WARN == 2
ERROR == 3
FATAL == 4

Levels == DEBUG..FATAL

ActionStart == "START"
ActionComplete == "COMPLETE"
ActionError == "ERROR"
ActionRetry == "RETRY"

\* ------------------------------------------------------------ input sets
Threads == {1, 2}                 \* the goroutines of the application
Writers == {1, 2}                 \* the Writer objects of the application
AllWriters == 1..5                \* these and the ones registered at start
FailingWriters == {2}             \* the Writers whose Write returns an error
InitialWriters == <<3, 4, 5>>     \* the Writers an application registers at start
Keys == {"k1", "k2"}              \* field keys callers use
Strs == {"v1", "v2"}              \* field values callers use
TagNames == {"x", "y"}
InputMaps == {"in1"}              \* the map a caller passes as input
OutputMaps == {"out1"}            \* the map a caller passes as output
Errs == {"e1"}                    \* error values (identified by message)
Resolutions == {"", "fix"}        \* the resolution texts callers give
FnErrs == {"e1", "e2"}            \* the errors the retried function returns
Backoffs == {1, 2}                \* the backoff durations callers give
Nil == "nil"

\* A Go interface{} value: a type tag, and the value in s (strings, and the
\* identity of maps and structs) or n (integers, durations, booleans and
\* the address of a map built by this package).
\* r is only used by an *ErrorInfo (its Resolution; s its Message, n its Retryable).
StrV(s) == [t |-> "string", s |-> s, n |-> 0, r |-> ""]
IntV(n) == [t |-> "int", s |-> "", n |-> n, r |-> ""]
DurV(n) == [t |-> "duration", s |-> "", n |-> n, r |-> ""]
MapV(m) == [t |-> "map", s |-> m, n |-> 0, r |-> ""]
HeapMapV(id) == [t |-> "map", s |-> "", n |-> id, r |-> ""]
BoolV(b) == [t |-> "bool", s |-> "", n |-> IF b THEN 1 ELSE 0, r |-> ""]
ErrInfoV(msg, retryable, resolution) ==
    [t |-> "errorinfo", s |-> msg, n |-> IF retryable THEN 1 ELSE 0, r |-> resolution]

\* uuid.New().String(): the n-th uuid drawn.
UUID(n) == "uuid-" \o ToString(n)

\* Field constructors: each collapses to a (Key, Value) pair.  Error(key,
\* err) stores err.Error(): callers pass it an error that is not nil.
NewField(key, value) == [Key |-> key, Value |-> value]
FieldString(key, value) == [Key |-> key, Value |-> StrV(value)]
FieldInt(key, value) == [Key |-> key, Value |-> IntV(value)]
FieldDuration(key, value) == [Key |-> key, Value |-> DurV(value)]
FieldError(key, err) == [Key |-> key, Value |-> StrV(err)]
FieldAny(key, value) == [Key |-> key, Value |-> value]

\* The per-call field lists the level methods are called with.
FieldLists ==
    { <<>>,
      <<FieldString("k1", "v1"), FieldString("k2", "v1"), FieldString("k1", "v2")>> }

VARIABLES
    loggers,    \* heap of vibeLogger objects
    maps,       \* heap of Go maps: each a function from its keys to values
    tarrs,      \* heap of backing arrays of []string (tags)
    warrs,      \* heap of backing arrays of []Writer
    entries,    \* heap of Entry objects, in the order they were built
    trackers,   \* heap of OperationTracker objects
    batches,    \* heap of BatchOperationTracker objects
    uuids,      \* number of uuid.New() calls so far
    clock,      \* time.Now()
    writes,     \* every Writer.Write invocation, in order: [w, e, err]
    wformatter, \* per Writer: its formatter field
    written,    \* what the Writers wrote out, in order: [w, e, formatter]
    reported,   \* number of "Logger write error" lines printed
    calls,      \* number of calls made so far (bounds the model)
    hist,       \* per Entry: how it came to be built (history)
    lineage,    \* per vibeLogger: how it was derived, and how many writers
                \* its list had then (history)
    last,       \* the last call made on a Logger (history)
    mu,         \* per vibeLogger: its sync.RWMutex
    pc,         \* per goroutine: the call it is in and where in it
    retry,      \* the ExecuteWithRetry call in progress and where in it
    recovery,   \* the RecoveryHandler call in progress and where in it
    buffered,   \* the BufferedFileWriter: its buffer, its file, what it returned
    rotating,   \* the RotatingFileWriter and the log files of its directory
    collector   \* the SystemInfoCollector and the goroutines calling it

vars == <<loggers, maps, tarrs, warrs, entries, trackers, batches, uuids, clock,
          writes, wformatter, written, reported, calls, hist, lineage, last, mu, pc, retry, recovery, buffered, rotating, collector>>

\* ------------------------------------------------------- maps and slices
EmptyMap == [k \in {} |-> StrV("")]
MapPut(m, k, v) == [x \in (DOMAIN m) \cup {k} |-> IF x = k THEN v ELSE m[x]]

Range(f) == {f[i] : i \in DOMAIN f}

\* make([]T, 0): no backing array is allocated (arr 0).
MakeSlice0 == [arr |-> 0, len |-> 0, cap |-> 0]

\* The elements s[0:len] of a slice, read from its backing array.
SliceElems(heap, s) == IF s.len = 0 THEN <<>> ELSE SubSeq(heap[s.arr], 1, s.len)

\* Go's growth rule for append (capacities below 256: double, or what is needed).
GrowCap(oldCap, needed) == IF needed > 2 * oldCap THEN needed ELSE 2 * oldCap

\* append(s, elems...): written in place when the capacity allows it (the
\* backing array is then shared with every other slice over it), else copied
\* to a new array.  zero is the element type's zero value.
GoAppend(heap, s, elems, zero) ==
    LET n == s.len + Len(elems) IN
    IF Len(elems) = 0 THEN [heap |-> heap, slice |-> s]
    ELSE IF n <= s.cap
    THEN [heap |-> [heap EXCEPT ![s.arr] =
                      [i \in 1..s.cap |-> IF i > s.len /\ i <= n THEN elems[i - s.len] ELSE @[i]]],
          slice |-> [arr |-> s.arr, len |-> n, cap |-> s.cap]]
    ELSE LET c == GrowCap(s.cap, n)
             old == SliceElems(heap, s)
             a == [i \in 1..c |-> IF i <= s.len THEN old[i]
                                  ELSE IF i <= n THEN elems[i - s.len] ELSE zero]
         IN [heap |-> Append(heap, a),
             slice |-> [arr |-> Len(heap) + 1, len |-> n, cap |-> c]]

\* ------------------------------------------------------------ the Logger
\* New(level): no writers, no formatter, empty fields and tags, system info
\* on, runtime info off.  fieldsMap is the address of the fresh fields map.
New(level, fieldsMap) ==
    [level |-> level, writers |-> MakeSlice0, formatter |-> Nil,
     fields |-> fieldsMap, tags |-> MakeSlice0,
     traceID |-> "", spanID |-> "", parentID |-> "", context |-> Nil,
     includeSystemInfo |-> TRUE, includeRuntimeInfo |-> FALSE]

\* Mutant of copyFields: the receiver's own map is returned.
copyFieldsShared(lg, ms) == [maps |-> ms, id |-> lg.fields]

\* copyFields: a fresh map holding the receiver's fields.
copyFields(lg, ms) == [maps |-> Append(ms, ms[lg.fields]), id |-> Len(ms) + 1]

\* copyTags: make([]string, len(l.tags)) and copy.
copyTags(lg, ta) ==
    IF lg.tags.len = 0 THEN [tarrs |-> ta, slice |-> MakeSlice0]
    ELSE [tarrs |-> Append(ta, SliceElems(ta, lg.tags)),
          slice |-> [arr |-> Len(ta) + 1, len |-> lg.tags.len, cap |-> lg.tags.len]]

\* Mutant of clone: the fields map is shared with the receiver.
cloneSharedFields(lg, ms, ta) ==
    LET tg == GoAppend(ta, MakeSlice0, SliceElems(ta, lg.tags), "") IN
    [logger |-> [lg EXCEPT !.tags = tg.slice], maps |-> ms, tarrs |-> tg.heap]

\* Mutant of clone: the switches are set as New sets them.
cloneDefaultSwitches(lg, ms, ta) ==
    LET tg == GoAppend(ta, MakeSlice0, SliceElems(ta, lg.tags), "") IN
    [logger |-> [lg EXCEPT !.fields = Len(ms) + 1, !.tags = tg.slice,
                           !.includeSystemInfo = TRUE, !.includeRuntimeInfo = FALSE],
     maps |-> Append(ms, ms[lg.fields]),
     tarrs |-> tg.heap]

\* clone: level, writers (the slice header: the backing array is shared),
\* formatter, ids, context and switches are copied; fields go to a fresh
\* map and tags to a fresh slice.
clone(lg, ms, ta) ==
    LET tg == GoAppend(ta, MakeSlice0, SliceElems(ta, lg.tags), "") IN
    [logger |-> [lg EXCEPT !.fields = Len(ms) + 1, !.tags = tg.slice],
     maps |-> Append(ms, ms[lg.fields]),
     tarrs |-> tg.heap]

\* for _, field := range fields { entry.Context[field.Key] = field.Value }
RECURSIVE SetFields(_, _, _)
SetFields(m, fields, i) ==
    IF i > Len(fields) THEN m
    ELSE SetFields(MapPut(m, fields[i].Key, fields[i].Value), fields, i + 1)

\* Mutant of overlayFields: a key that is already present is kept.
RECURSIVE SetFieldsKeep(_, _, _)
SetFieldsKeep(m, fields, i) ==
    IF i > Len(fields) THEN m
    ELSE SetFieldsKeep(IF fields[i].Key \in DOMAIN m THEN m
                       ELSE MapPut(m, fields[i].Key, fields[i].Value), fields, i + 1)

overlayFieldsKeep(m, fields) == SetFieldsKeep(m, fields, 1)

\* The per-call fields laid over the copied fields, in argument order.
overlayFields(m, fields) == SetFields(m, fields, 1)

\* writeEntry: Write on every writer of the list, in order; an error is
\* printed and the loop goes on.
RECURSIVE WriteLoop(_, _, _)
WriteLoop(ws, i, e) ==
    IF i > Len(ws) THEN [writes |-> <<>>, reported |-> 0]
    ELSE LET rest == WriteLoop(ws, i + 1, e) IN
         [writes |-> <<[w |-> ws[i], e |-> e, err |-> ws[i] \in FailingWriters]>> \o rest.writes,
          reported |-> (IF ws[i] \in FailingWriters THEN 1 ELSE 0) + rest.reported]

\* Mutant of writeEntry: the loop returns at the first Write error.
RECURSIVE WriteLoopStop(_, _, _)
WriteLoopStop(ws, i, e) ==
    IF i > Len(ws) THEN [writes |-> <<>>, reported |-> 0]
    ELSE IF ws[i] \in FailingWriters
    THEN [writes |-> <<[w |-> ws[i], e |-> e, err |-> TRUE]>>, reported |-> 1]
    ELSE LET rest == WriteLoopStop(ws, i + 1, e) IN
         [writes |-> <<[w |-> ws[i], e |-> e, err |-> FALSE]>> \o rest.writes,
          reported |-> rest.reported]

writeEntryStopAtError(ws, e) == WriteLoopStop(ws, 1, e)

writeEntry(ws, e) == WriteLoop(ws, 1, e)

\* The Entry that log builds (lines 94-120): id, timestamp, level, message,
\* copies of fields and tags, the ids, the optional snapshots.  Action,
\* Input, Output, Error and Duration are not assigned: they keep Go's zero
\* values.
NewEntry(lg, level, msg, ctx, tags, id) ==
    [ID |-> id, Timestamp |-> clock, Level |-> level, Action |-> "",
     Operation |-> msg, Input |-> Nil, Output |-> Nil, Error |-> Nil,
     Duration |-> 0, Context |-> ctx, Tags |-> tags,
     TraceID |-> lg.traceID, SpanID |-> lg.spanID, ParentID |-> lg.parentID,
     SystemInfo |-> IF lg.includeSystemInfo THEN "compact" ELSE Nil,
     RuntimeInfo |-> IF lg.includeRuntimeInfo THEN "runtime" ELSE Nil]

\* A Writer is a file writer or a console writer.  Its Write formats with
\* its formatter field, which it first sets to a formatter of its own
\* choice if it is nil: JSON for a file writer, text for a console writer.
WriterKind(w) == IF w % 2 = 1 THEN "file" ELSE "console"
DefaultFormatter(w) == IF WriterKind(w) = "file" THEN "json" ELSE "text"
FormatterUsed(w) == IF wformatter[w] = Nil THEN DefaultFormatter(w) ELSE wformatter[w]

\* The formatter fields after the Write invocations ws.
WriteFormatters(ws) ==
    [w \in DOMAIN wformatter |->
        IF \E i \in 1..Len(ws) : ws[i].w = w THEN FormatterUsed(w) ELSE wformatter[w]]

\* What the Write invocations ws wrote out: a failing Write writes nothing.
RECURSIVE WriteOutput(_)
WriteOutput(ws) ==
    IF ws = <<>> THEN <<>>
    ELSE (IF ws[1].w \in FailingWriters THEN <<>>
          ELSE <<[w |-> ws[1].w, e |-> ws[1].e, formatter |-> FormatterUsed(ws[1].w)]>>)
         \o WriteOutput(Tail(ws))

\* The writers of a Logger, in registration order.
WritersOf(l) == SliceElems(warrs, loggers[l].writers)

\* What a caller can observe of a Logger: its configuration with the
\* contents of its fields map and of its tags.
LoggerView(l) ==
    [loggers[l] EXCEPT !.fields = maps[loggers[l].fields],
                       !.tags = SliceElems(tarrs, loggers[l].tags),
                       !.writers = WritersOf(l)]

LastCall(op, l, level) ==
    [op |-> op, l |-> l, level |-> level, minLevel |-> loggers[l].level,
     e0 |-> Len(entries), w0 |-> Len(writes), r0 |-> reported,
     view |-> LoggerView(l), t |-> 0, args |-> <<>>, fault |-> FALSE]

LevelOps == {"Debug", "Info", "Warn", "Error", "Fatal"}
WithOps == {"WithContext", "WithField", "WithFields", "WithTag", "WithTags",
            "WithTraceID", "WithSpanID", "WithParentID"}

\* A goroutine: the call it is in (op on Logger l, with level, per-call
\* fields and argument arg), the step it is at, and in writeEntry the
\* Entry e, the slice ws being ranged over and the index i.
Idle == [at |-> "idle", op |-> "", l |-> 0, level |-> 0, fields |-> <<>>,
         arg |-> 0, e |-> 0, ws |-> MakeSlice0, i |-> 0]

\* No ExecuteWithRetry call: the Logger l of the RetryHandler, the
\* arguments maxAttempts and backoff, the loop variable attempt, lastErr,
\* the error err of the current attempt, nextRetryIn, what the call
\* returned, and as history what fn returned at each invocation and how
\* long each time.Sleep was.
NoRetry == [at |-> "idle", l |-> 0, maxAttempts |-> 0, backoff |-> 0,
            attempt |-> 0, lastErr |-> Nil, err |-> Nil, nextRetryIn |-> 0,
            returned |-> Nil, fn |-> <<>>, slept |-> <<>>]

\* No RecoveryHandler call: the method op and the Logger l of the handler,
\* whether a recoveryFn was given, the error err of fn, recoveryErr, what
\* the call returned, the number e0 of Entries when it was entered, and as
\* history what fn did at each invocation and what recoveryFn was called
\* with.
NoRecovery == [at |-> "idle", op |-> "", l |-> 0, hasRecoveryFn |-> FALSE,
               err |-> Nil, recoveryErr |-> Nil, returned |-> Nil, e0 |-> 0,
               fn |-> <<>>, recoveryFn |-> <<>>, propagated |-> FALSE]

\* A sync.RWMutex: the goroutines holding the read lock, and the one
\* holding the write lock (0: none).
Unlocked == [readers |-> {}, writer |-> 0]

\* Every call on a Logger is counted and recorded.  A call made by the
\* only goroutine takes and releases the mutex within the call; a Logger
\* made by a With* method has a mutex of its own.
Called(op, l, level) ==
    /\ calls < MaxCalls
    /\ calls' = calls + 1
    /\ last' = LastCall(op, l, level)
    /\ mu' = IF op \in WithOps THEN Append(mu, Unlocked) ELSE mu
    /\ UNCHANGED <<pc, retry, recovery, buffered, rotating, collector>>

\* A call that is about tracker, batch or writer t, made through Logger l.
CalledOn(op, l, level, t) ==
    /\ calls < MaxCalls
    /\ calls' = calls + 1
    /\ last' = [LastCall(op, l, level) EXCEPT !.t = t]
    /\ UNCHANGED <<mu, pc, retry, recovery, buffered, rotating, collector>>

\* A call about tracker t whose string arguments are args.
CalledWith(op, l, level, t, args) ==
    /\ calls < MaxCalls
    /\ calls' = calls + 1
    /\ last' = [LastCall(op, l, level) EXCEPT !.t = t, !.args = args]
    /\ UNCHANGED <<mu, pc, retry, recovery, buffered, rotating, collector>>

\* A call that dereferences a nil argument (tracker 0, error Nil): the
\* goroutine panics with a nil pointer dereference before anything is
\* logged, and the panic goes up into the caller.
Fault(op, l, level, t, args) ==
    /\ calls < MaxCalls
    /\ calls' = calls + 1
    /\ last' = [LastCall(op, l, level) EXCEPT !.t = t, !.args = args, !.fault = TRUE]
    /\ UNCHANGED <<loggers, maps, tarrs, warrs, entries, trackers, batches, uuids,
                   clock, writes, wformatter, written, reported, hist, lineage, mu, pc, retry, recovery, buffered, rotating, collector>>

\* The first part of log (lines 94-128): the Entry is built, from the maps
\* heap ms and after uu uuids were drawn.
buildEntry(l, level, msg, fields, ms, uu, op) ==
    LET lg == loggers[l]
        cf == copyFields(lg, ms)
        ct == copyTags(lg, tarrs)
        ctx == overlayFields(cf.maps[cf.id], fields)
    IN /\ maps' = [cf.maps EXCEPT ![cf.id] = ctx]
       /\ tarrs' = ct.tarrs
       /\ entries' = Append(entries, NewEntry(lg, level, msg, cf.id, ct.slice, UUID(uu + 1)))
       /\ uuids' = uu + 1
       /\ hist' = Append(hist, [via |-> l, op |-> op, minLevel |-> lg.level,
                                acc |-> ms[lg.fields], fields |-> fields,
                                ctx |-> ctx, tags |-> SliceElems(tarrs, lg.tags),
                                writers |-> WritersOf(l),
                                nLoggers |-> Len(loggers)])

\* log(level, msg, fields...) on Logger l, called from operation op: the
\* Entry is built and written to every writer.
log(l, level, msg, fields, ms, uu, op) ==
    LET wr == writeEntry(WritersOf(l), Len(entries) + 1) IN
    /\ buildEntry(l, level, msg, fields, ms, uu, op)
    /\ writes' = writes \o wr.writes
    /\ wformatter' = WriteFormatters(wr.writes)
    /\ written' = written \o WriteOutput(wr.writes)
    /\ reported' = reported + wr.reported

\* A call that is filtered out: nothing but the record of the call changes.
Filtered ==
    UNCHANGED <<loggers, maps, tarrs, warrs, entries, trackers, batches, uuids, clock,
                writes, wformatter, written, reported, hist, lineage>>

\* Mutant of LevelMethod: the comparison is off by one level.
LevelMethodOffByOne(l, level, name, fields) ==
    /\ Called(name, l, level)
    /\ IF loggers[l].level <= level + 1
       THEN /\ log(l, level, "msg", fields, maps, uuids, name)
            /\ UNCHANGED <<loggers, warrs, trackers, batches, clock, lineage>>
       ELSE Filtered

\* Debug/Info/Warn/Error/Fatal: if l.level <= LEVEL { l.log(LEVEL, msg, fields...) }
LevelMethod(l, level, name, fields) ==
    /\ Called(name, l, level)
    /\ IF loggers[l].level <= level
       THEN /\ log(l, level, "msg", fields, maps, uuids, name)
            /\ UNCHANGED <<loggers, warrs, trackers, batches, clock, lineage>>
       ELSE Filtered

Debug(l, fields) == LevelMethod(l, DEBUG, "Debug", fields)
Info(l, fields) == LevelMethod(l, INFO, "Info", fields)
Warn(l, fields) == LevelMethod(l, WARN, "Warn", fields)
Error(l, fields) == LevelMethod(l, ERROR, "Error", fields)
Fatal(l, fields) == LevelMethod(l, FATAL, "Fatal", fields)

\* --------------------------------------------------- operation tracking
\* Mutant of StartOperation: the tracker's Context is the Logger's own map.
StartOperationSharedContext(l, operation, input) ==
    LET id == UUID(uuids + 1)
    IN /\ Called("StartOperation", l, INFO)
       /\ trackers' = Append(trackers,
              [ID |-> id, Operation |-> operation, StartTime |-> clock,
               Input |-> input, Context |-> loggers[l].fields, Logger |-> l,
               parent |-> 0, by |-> [op |-> "StartOperation", from |-> l]])
       /\ log(l, INFO, operation,
              <<FieldString("action", ActionStart),
                FieldString("operation_id", id),
                FieldAny("input", MapV(input))>>,
              maps, uuids + 1, "StartOperation")
       /\ UNCHANGED <<loggers, warrs, batches, clock, lineage>>

\* StartOperation: a tracker with a fresh id, the start time, the input
\* and a copy of the Logger's fields; then log(INFO, ...) with no level
\* check.
StartOperation(l, operation, input) ==
    LET cf == copyFields(loggers[l], maps)
        id == UUID(uuids + 1)
    IN /\ Called("StartOperation", l, INFO)
       /\ trackers' = Append(trackers,
              [ID |-> id, Operation |-> operation, StartTime |-> clock,
               Input |-> input, Context |-> cf.id, Logger |-> l, parent |-> 0,
               by |-> [op |-> "StartOperation", from |-> l]])
       /\ log(l, INFO, operation,
              <<FieldString("action", ActionStart),
                FieldString("operation_id", id),
                FieldAny("input", MapV(input))>>,
              cf.maps, uuids + 1, "StartOperation")
       /\ UNCHANGED <<loggers, warrs, batches, clock, lineage>>

\* Mutant of Since: the difference is taken the other way round.
SinceReversed(start) == start - clock

\* time.Since(start): time.Now() minus start.
Since(start) == clock - start

\* CompleteOperation: duration := time.Since(tracker.StartTime); log(INFO, ...).
\* tracker.StartTime dereferences the tracker (0 is the nil tracker).
\* Mutant of CompleteOperation: the tracker's context is logged with the event.
CompleteOperationWithContext(l, t, output) ==
    LET tracker == trackers[t]
        duration == Since(tracker.StartTime)
    IN /\ CalledOn("CompleteOperation", l, INFO, t)
       /\ log(l, INFO, tracker.Operation,
              <<FieldString("action", ActionComplete),
                FieldString("operation_id", tracker.ID),
                FieldAny("input", MapV(tracker.Input)),
                FieldAny("output", MapV(output)),
                FieldDuration("duration", duration),
                FieldAny("context", HeapMapV(tracker.Context))>>,
              maps, uuids, "CompleteOperation")
       /\ UNCHANGED <<loggers, warrs, trackers, batches, clock, lineage>>

CompleteOperation(l, t, output) ==
    IF t = 0 THEN Fault("CompleteOperation", l, INFO, t, <<>>)
    ELSE
    LET tracker == trackers[t]
        duration == Since(tracker.StartTime)
    IN /\ CalledOn("CompleteOperation", l, INFO, t)
       /\ log(l, INFO, tracker.Operation,
              <<FieldString("action", ActionComplete),
                FieldString("operation_id", tracker.ID),
                FieldAny("input", MapV(tracker.Input)),
                FieldAny("output", MapV(output)),
                FieldDuration("duration", duration)>>,
              maps, uuids, "CompleteOperation")
       /\ UNCHANGED <<loggers, warrs, trackers, batches, clock, lineage>>

\* Mutant of ErrorOperation: the ErrorInfo says Retryable.
ErrorOperationRetryable(l, t, err, resolution) ==
    LET tracker == trackers[t]
        duration == Since(tracker.StartTime)
        errorInfo == ErrInfoV(err, TRUE, resolution)
    IN /\ CalledWith("ErrorOperation", l, ERROR, t, <<err, resolution>>)
       /\ log(l, ERROR, tracker.Operation,
              <<FieldString("action", ActionError),
                FieldString("operation_id", tracker.ID),
                FieldAny("input", MapV(tracker.Input)),
                FieldAny("error", errorInfo),
                FieldDuration("duration", duration)>>,
              maps, uuids, "ErrorOperation")
       /\ UNCHANGED <<loggers, warrs, trackers, batches, clock, lineage>>

\* ErrorOperation: an ErrorInfo with Retryable false; log(ERROR, ...).
\* tracker.StartTime dereferences the tracker and err.Error() the error.
ErrorOperation(l, t, err, resolution) ==
    IF t = 0 \/ err = Nil THEN Fault("ErrorOperation", l, ERROR, t, <<err, resolution>>)
    ELSE
    LET tracker == trackers[t]
        duration == Since(tracker.StartTime)
        errorInfo == ErrInfoV(err, FALSE, resolution)
    IN /\ CalledWith("ErrorOperation", l, ERROR, t, <<err, resolution>>)
       /\ log(l, ERROR, tracker.Operation,
              <<FieldString("action", ActionError),
                FieldString("operation_id", tracker.ID),
                FieldAny("input", MapV(tracker.Input)),
                FieldAny("error", errorInfo),
                FieldDuration("duration", duration)>>,
              maps, uuids, "ErrorOperation")
       /\ UNCHANGED <<loggers, warrs, trackers, batches, clock, lineage>>

\* LogError: log(ERROR, "error_occurred", error, context).  The ErrorInfo
\* is built with err.Error().
LogError(l, err, context, retryable) ==
    IF err = Nil THEN Fault("LogError", l, ERROR, 0, <<err>>)
    ELSE
    /\ Called("LogError", l, ERROR)
    /\ log(l, ERROR, "error_occurred",
           <<FieldAny("error", ErrInfoV(err, retryable, "")),
             FieldAny("context", MapV(context))>>,
           maps, uuids, "LogError")
    /\ UNCHANGED <<loggers, warrs, trackers, batches, clock, lineage>>

\* LogRetry: log(WARN, operation, action RETRY, attempt, error, next_retry_in).
\* The field constructor Error(key, err) calls err.Error().
LogRetry(l, operation, attempt, err, nextRetryIn) ==
    IF err = Nil THEN Fault("LogRetry", l, WARN, 0, <<err>>)
    ELSE
    /\ Called("LogRetry", l, WARN)
    /\ log(l, WARN, operation,
           <<FieldString("action", ActionRetry),
             FieldInt("attempt", attempt),
             FieldError("error", err),
             FieldDuration("next_retry_in", nextRetryIn)>>,
           maps, uuids, "LogRetry")
    /\ UNCHANGED <<loggers, warrs, trackers, batches, clock, lineage>>

\* LogRecovery: log(INFO, operation, action RECOVERY, original_error, recovery_action).
\* The field constructor Error(key, err) calls err.Error().
LogRecovery(l, operation, originalErr, recoveryAction) ==
    IF originalErr = Nil THEN Fault("LogRecovery", l, INFO, 0, <<originalErr>>)
    ELSE
    /\ Called("LogRecovery", l, INFO)
    /\ log(l, INFO, operation,
           <<FieldString("action", "RECOVERY"),
             FieldError("original_error", originalErr),
             FieldString("recovery_action", recoveryAction)>>,
           maps, uuids, "LogRecovery")
    /\ UNCHANGED <<loggers, warrs, trackers, batches, clock, lineage>>

\* ------------------------------------------------- trackers and batches
\* The body of Logger.Info(msg, fields...) called by a tracker method op:
\* if l.level <= INFO { l.log(INFO, msg, fields...) }.  ms is the maps heap
\* and uu the number of uuids drawn when Info is called.
InfoFrom(l, msg, fields, ms, uu, op) ==
    IF loggers[l].level <= INFO
    THEN log(l, INFO, msg, fields, ms, uu, op)
    ELSE /\ maps' = ms
         /\ uuids' = uu
         /\ UNCHANGED <<tarrs, entries, writes, wformatter, written, reported, hist>>

\* Mutant of TrackerComplete: a tracker that was completed or failed
\* before is not completed again.
TrackerCompleteOnce(t, output) ==
    IF \E e \in 1..Len(entries) :
           /\ hist[e].op \in {"CompleteOperation", "ErrorOperation"}
           /\ hist[e].fields[2].Value.s = trackers[t].ID
    THEN CalledOn("CompleteOperation", trackers[t].Logger, INFO, t) /\ Filtered
    ELSE CompleteOperation(trackers[t].Logger, t, output)

\* OperationTracker.Complete(output): t.Logger.CompleteOperation(t, output).
TrackerComplete(t, output) == CompleteOperation(trackers[t].Logger, t, output)

\* OperationTracker.Error(err, resolution): t.Logger.ErrorOperation(t, err, resolution).
TrackerError(t, err, resolution) ==
    ErrorOperation(trackers[t].Logger, t, err, resolution)

\* OperationTracker.AddContext(key, value): t.Context[key] = value, in a
\* new map when t.Context is nil (0).
AddContext(t, key, value) ==
    LET nilCtx == trackers[t].Context = 0
        c == IF nilCtx THEN Len(maps) + 1 ELSE trackers[t].Context
        ms == IF nilCtx THEN Append(maps, EmptyMap) ELSE maps
    IN /\ CalledOn("AddContext", trackers[t].Logger, -1, t)
       /\ trackers' = [trackers EXCEPT ![t].Context = c]
       /\ maps' = [ms EXCEPT ![c] = MapPut(@, key, value)]
       /\ UNCHANGED <<loggers, tarrs, warrs, entries, batches, uuids, clock,
                      writes, wformatter, written, reported, hist, lineage>>

\* Mutant of CreateSubOperation: the child's Context is the parent's map.
CreateSubOperationSharedContext(t, operation, input) ==
    LET l == trackers[t].Logger
        id == UUID(uuids + 1)
    IN /\ CalledOn("CreateSubOperation", l, INFO, t)
       /\ trackers' = Append(trackers,
              [ID |-> id, Operation |-> operation, StartTime |-> clock,
               Input |-> input, Context |-> trackers[t].Context, Logger |-> l,
               parent |-> t, by |-> [op |-> "CreateSubOperation", from |-> t]])
       /\ InfoFrom(l, operation,
              <<FieldString("action", ActionStart),
                FieldString("operation_id", id),
                FieldString("parent_id", trackers[t].ID),
                FieldAny("input", MapV(input))>>,
              maps, uuids + 1, "CreateSubOperation")
       /\ UNCHANGED <<loggers, warrs, batches, clock, lineage>>

\* CreateSubOperation: a tracker with a fresh id and a new map holding the
\* parent's context (a nil map ranges as an empty one); then
\* t.Logger.Info(...).
CreateSubOperation(t, operation, input) ==
    LET l == trackers[t].Logger
        id == UUID(uuids + 1)
        inherited == IF trackers[t].Context = 0 THEN EmptyMap
                     ELSE maps[trackers[t].Context]
    IN /\ CalledOn("CreateSubOperation", l, INFO, t)
       /\ trackers' = Append(trackers,
              [ID |-> id, Operation |-> operation, StartTime |-> clock,
               Input |-> input, Context |-> Len(maps) + 1, Logger |-> l,
               parent |-> t, by |-> [op |-> "CreateSubOperation", from |-> t]])
       /\ InfoFrom(l, operation,
              <<FieldString("action", ActionStart),
                FieldString("operation_id", id),
                FieldString("parent_id", trackers[t].ID),
                FieldAny("input", MapV(input))>>,
              Append(maps, inherited), uuids + 1, "CreateSubOperation")
       /\ UNCHANGED <<loggers, warrs, batches, clock, lineage>>

\* NewBatchOperationTracker(logger, batchName): a fresh id, no operations,
\* the start time, an empty context.  It makes no call on the Logger.
NewBatchOperationTracker(l, batchName) ==
    /\ Len(batches) < MaxBatches
    /\ batches' = Append(batches,
           [ID |-> UUID(uuids + 1), BatchName |-> batchName, Operations |-> <<>>,
            StartTime |-> clock, Logger |-> l, Context |-> Len(maps) + 1])
    /\ maps' = Append(maps, EmptyMap)
    /\ uuids' = uuids + 1
    /\ last' = [LastCall("NewBatchOperationTracker", l, -1) EXCEPT !.t = Len(batches) + 1]
    /\ UNCHANGED <<loggers, tarrs, warrs, entries, trackers, clock, writes, wformatter, written,
                   reported, calls, hist, lineage, mu, pc, retry, recovery, buffered, rotating, collector>>

\* The caller sets a key of the batch's exported Context map.
SetBatchContext(b, key, value) ==
    /\ CalledOn("SetBatchContext", batches[b].Logger, -1, b)
    /\ maps' = [maps EXCEPT ![batches[b].Context] = MapPut(@, key, value)]
    /\ UNCHANGED <<loggers, tarrs, warrs, entries, trackers, batches, uuids,
                   clock, writes, wformatter, written, reported, hist, lineage>>

\* AddOperation: a tracker with a fresh id and a new map holding the
\* batch's context, appended to bt.Operations; then bt.Logger.Info(...).
AddOperation(b, operation, input) ==
    LET bt == batches[b]
        l == bt.Logger
        id == UUID(uuids + 1)
        t == Len(trackers) + 1
    IN /\ CalledOn("AddOperation", l, INFO, b)
       /\ trackers' = Append(trackers,
              [ID |-> id, Operation |-> operation, StartTime |-> clock,
               Input |-> input, Context |-> Len(maps) + 1, Logger |-> l,
               parent |-> 0, by |-> [op |-> "AddOperation", from |-> b]])
       /\ batches' = [batches EXCEPT ![b].Operations = Append(@, t)]
       /\ InfoFrom(l, operation,
              <<FieldString("action", ActionStart),
                FieldString("operation_id", id),
                FieldString("batch_id", bt.ID),
                FieldString("batch_name", bt.BatchName),
                FieldAny("input", MapV(input))>>,
              Append(maps, maps[bt.Context]), uuids + 1, "AddOperation")
       /\ UNCHANGED <<loggers, warrs, clock, lineage>>

\* countCompletedOperations: every operation counts as completed.
countCompletedOperations(bt) == Len(bt.Operations)

\* countFailedOperations: no operation counts as failed.
countFailedOperations(bt) == 0

\* Mutant of BatchStats: only the trackers that were completed are counted.
BatchStatsTracked(bt) ==
    LET done(t) == \E e \in 1..Len(entries) :
                       /\ hist[e].op = "CompleteOperation"
                       /\ hist[e].fields[2].Value.s = trackers[t].ID
        n == Cardinality({i \in 1..Len(bt.Operations) : done(bt.Operations[i])})
    IN [total_operations |-> IntV(Len(bt.Operations)),
        completed_operations |-> IntV(n),
        failed_operations |-> IntV(Len(bt.Operations) - n),
        total_duration |-> DurV(Since(bt.StartTime))]

\* The stats map that BatchOperationTracker.Complete builds.
BatchStats(bt) ==
    [total_operations |-> IntV(Len(bt.Operations)),
     completed_operations |-> IntV(countCompletedOperations(bt)),
     failed_operations |-> IntV(countFailedOperations(bt)),
     total_duration |-> DurV(Since(bt.StartTime))]

\* BatchOperationTracker.Complete(summary): bt.Logger.Info(bt.BatchName,
\* action COMPLETE, batch_id, summary, stats).
BatchComplete(b, summary) ==
    LET bt == batches[b] IN
    /\ CalledOn("BatchComplete", bt.Logger, INFO, b)
    /\ InfoFrom(bt.Logger, bt.BatchName,
           <<FieldString("action", ActionComplete),
             FieldString("batch_id", bt.ID),
             FieldAny("summary", MapV(summary)),
             FieldAny("stats", HeapMapV(Len(maps) + 1))>>,
           Append(maps, BatchStats(bt)), uuids, "BatchComplete")
    /\ UNCHANGED <<loggers, warrs, trackers, batches, clock, lineage>>

\* ------------------------------------------------------ the RetryHandler
\* The body of a level method called by a handler method op:
\* if l.level <= LEVEL { l.log(LEVEL, msg, fields...) }.
LevelFrom(l, level, msg, fields, op) ==
    IF loggers[l].level <= level
    THEN log(l, level, msg, fields, maps, uuids, op)
    ELSE UNCHANGED <<maps, tarrs, entries, uuids, writes, wformatter, written, reported, hist>>

\* No BufferedFileWriter has been made.
\* A BufferedFileWriter: bufferSize, the buffer of formatted entries (each
\* known by the number of the Write that accepted it), what has been
\* written to the file, whether the file is closed, and as history the
\* number of entries accepted, the number of calls, the last call and what
\* it returned.
NoBuffered == [bufferSize |-> 0, buffer |-> <<>>, file |-> <<>>, closed |-> FALSE,
               accepted |-> 0, calls |-> 0, op |-> "", ret |-> Nil]

\* A RotatingFileWriter: maxSize, maxFiles, currentSize, and the log
\* files of its directory: files[0] is baseFilename (the file currentFile
\* is open on), files[i] the backup baseFilename.i; each with its size and
\* the order made in which it was created.  As history: the size of the
\* current file when it was opened and the bytes written to it since, the
\* number of files created, of rotations and of calls, and the last
\* call: the length of its formatted entry and what it returned.
NoRotating == [maxSize |-> 0, maxFiles |-> 0, currentSize |-> 0, files |-> <<>>,
               sizeAtOpen |-> 0, sinceOpen |-> 0, made |-> 0, rotations |-> 0,
               calls |-> 0, op |-> "", len |-> 0, ret |-> Nil]

\* A goroutine that is in no call on the SystemInfoCollector: the step it
\* is at, and as history of its latest call: the number of snapshots
\* collected when it first looked at the cache, whether it found the cache
\* fresh then, whether it collected, the snapshot it returned and when.
NoCollectorCall == [at |-> "idle", seen |-> 0, hit |-> FALSE, collected |-> FALSE,
                    ret |-> 0, retAt |-> 0]

\* A SystemInfoCollector fresh from NewSystemInfoCollector: cache and
\* envCache are nil (0; else the number of the snapshot), lastCollected is
\* the zero time, mu is unlocked.  As history: when each snapshot was
\* stamped, the number of environment collections and of calls.
NoCollector == [cache |-> 0, envCache |-> 0, lastCollected |-> 0, mu |-> Unlocked,
                collectedAt |-> <<>>, envCollections |-> 0, calls |-> 0,
                th |-> [t \in Threads |-> NoCollectorCall]]

\* What a step of ExecuteWithRetry leaves alone, besides what log changes.
RetryFrame == <<loggers, warrs, trackers, batches, calls, lineage, last, mu, pc,
                recovery, buffered, rotating, collector>>

\* ExecuteWithRetry(operation, fn, maxAttempts, backoff, context) is
\* entered on a RetryHandler of Logger l: var lastErr error; attempt := 1.
ExecuteWithRetry(l, maxAttempts, backoff) ==
    /\ retry.at = "idle"
    /\ retry' = [NoRetry EXCEPT !.at = "loop", !.l = l, !.maxAttempts = maxAttempts,
                                !.backoff = backoff, !.attempt = 1]
    /\ UNCHANGED <<RetryFrame, clock, maps, tarrs, entries, uuids, writes, wformatter, written,
                   reported, hist>>

\* attempt <= maxAttempts: rh.logger.Info(operation, action ATTEMPT, ...).
RetryAttempt ==
    /\ retry.at = "loop"
    /\ retry.attempt <= retry.maxAttempts
    /\ LevelFrom(retry.l, INFO, "op",
           <<FieldString("action", "ATTEMPT"),
             FieldInt("attempt", retry.attempt),
             FieldInt("max_attempts", retry.maxAttempts),
             FieldAny("context", MapV("ctx1"))>>, "ExecuteWithRetry")
    /\ retry' = [retry EXCEPT !.at = "fn"]
    /\ UNCHANGED <<RetryFrame, clock>>

\* Mutant of RetryCallFn: lastErr keeps the first error.
RetryCallFnKeepFirst(err) ==
    /\ retry.at = "fn"
    /\ retry' = [retry EXCEPT
           !.fn = Append(@, err),
           !.err = err,
           !.lastErr = IF err = Nil \/ @ # Nil THEN @ ELSE err,
           !.at = IF err = Nil THEN "success"
                  ELSE IF retry.attempt < retry.maxAttempts THEN "retry"
                  ELSE "exceeded"]
    /\ UNCHANGED <<RetryFrame, clock, maps, tarrs, entries, uuids, writes, wformatter, written,
                   reported, hist>>

\* err := fn(); if err == nil {...}; lastErr = err; if attempt < maxAttempts
\* {...} else {...}: fn returns err (Nil or an error).
RetryCallFn(err) ==
    /\ retry.at = "fn"
    /\ retry' = [retry EXCEPT
           !.fn = Append(@, err),
           !.err = err,
           !.lastErr = IF err = Nil THEN @ ELSE err,
           !.at = IF err = Nil THEN "success"
                  ELSE IF retry.attempt < retry.maxAttempts THEN "retry"
                  ELSE "exceeded"]
    /\ UNCHANGED <<RetryFrame, clock, maps, tarrs, entries, uuids, writes, wformatter, written,
                   reported, hist>>

\* rh.logger.Info(operation, action SUCCESS, ...); return nil.
RetrySuccess ==
    /\ retry.at = "success"
    /\ LevelFrom(retry.l, INFO, "op",
           <<FieldString("action", "SUCCESS"),
             FieldInt("attempt", retry.attempt),
             FieldAny("context", MapV("ctx1"))>>, "ExecuteWithRetry")
    /\ retry' = [retry EXCEPT !.at = "done", !.returned = Nil]
    /\ UNCHANGED <<RetryFrame, clock>>

\* Mutant of NextRetryIn: the backoff doubles with every attempt.
NextRetryInExponential(backoff, attempt) == backoff * 2 ^ (attempt - 1)

\* nextRetryIn := backoff * time.Duration(attempt)
NextRetryIn(backoff, attempt) == backoff * attempt

\* nextRetryIn is computed and HandleRetryableError logs
\* Warn("retryable_error", ..., attempt, max_attempts, next_retry_in, context).
HandleRetryableError ==
    LET nextRetryIn == NextRetryIn(retry.backoff, retry.attempt) IN
    /\ retry.at = "retry"
    /\ LevelFrom(retry.l, WARN, "retryable_error",
           <<FieldString("error_type", "*errors.errorString"),
             FieldString("error_message", retry.err),
             FieldInt("attempt", retry.attempt),
             FieldInt("max_attempts", retry.maxAttempts),
             FieldDuration("next_retry_in", nextRetryIn),
             FieldAny("context", MapV("ctx1"))>>, "HandleRetryableError")
    /\ retry' = [retry EXCEPT !.at = "sleep", !.nextRetryIn = nextRetryIn]
    /\ UNCHANGED <<RetryFrame, clock>>

\* time.Sleep(nextRetryIn); attempt++.
RetrySleep ==
    /\ retry.at = "sleep"
    /\ clock' = clock + retry.nextRetryIn
    /\ retry' = [retry EXCEPT !.at = "loop", !.slept = Append(@, retry.nextRetryIn),
                              !.attempt = @ + 1]
    /\ UNCHANGED <<RetryFrame, maps, tarrs, entries, uuids, writes, wformatter, written, reported, hist>>

\* Mutant of HandleMaxRetriesExceeded: the last failure is reported like
\* the ones before it, as a retryable error.
HandleMaxRetriesExceededAsRetryable ==
    /\ retry.at = "exceeded"
    /\ LevelFrom(retry.l, WARN, "retryable_error",
           <<FieldString("error_type", "*errors.errorString"),
             FieldString("error_message", retry.err),
             FieldInt("attempt", retry.attempt),
             FieldInt("max_attempts", retry.maxAttempts),
             FieldDuration("next_retry_in", 0),
             FieldAny("context", MapV("ctx1"))>>, "HandleRetryableError")
    /\ retry' = [retry EXCEPT !.at = "loop", !.attempt = @ + 1]
    /\ UNCHANGED <<RetryFrame, clock>>

\* HandleError(err, context, WithErrorCode("MAX_RETRIES_EXCEEDED"),
\* WithResolution(...)) logs Error("error_handled", ...); attempt++.
HandleMaxRetriesExceeded ==
    /\ retry.at = "exceeded"
    /\ LevelFrom(retry.l, ERROR, "error_handled",
           <<FieldString("error_type", "*errors.errorString"),
             FieldString("error_message", retry.err),
             FieldString("error_code", "MAX_RETRIES_EXCEEDED"),
             FieldString("resolution", "manual"),
             FieldString("stack_trace", "stack"),
             FieldAny("context", MapV("ctx1")),
             FieldAny("retryable", BoolV(FALSE))>>, "HandleError")
    /\ retry' = [retry EXCEPT !.at = "loop", !.attempt = @ + 1]
    /\ UNCHANGED <<RetryFrame, clock>>

\* attempt > maxAttempts: return lastErr.
RetryReturn ==
    /\ retry.at = "loop"
    /\ retry.attempt > retry.maxAttempts
    /\ retry' = [retry EXCEPT !.at = "done", !.returned = retry.lastErr]
    /\ UNCHANGED <<RetryFrame, clock, maps, tarrs, entries, uuids, writes, wformatter, written,
                   reported, hist>>

\* -------------------------------------------------- the RecoveryHandler
\* What a step of a RecoveryHandler method leaves alone, besides what log
\* changes and the count of calls.
RecoveryFrame == <<loggers, warrs, trackers, batches, clock, lineage, last, mu, pc, retry,
                   buffered, rotating, collector>>

\* The fields of the Entry that HandleError logs with Error("error_handled", ...),
\* after the options have set Code and Resolution.
HandleErrorFields(err, code, resolution) ==
    <<FieldString("error_type", "*errors.errorString"),
      FieldString("error_message", err),
      FieldString("error_code", code),
      FieldString("resolution", resolution),
      FieldString("stack_trace", "stack"),
      FieldAny("context", MapV("ctx1")),
      FieldAny("retryable", BoolV(FALSE))>>

\* A method op of a RecoveryHandler of Logger l is entered: the call is
\* counted, and the first statement logs Info(operation, action, context).
RecoveryEnter(op, l, hasRecoveryFn, action, at) ==
    /\ recovery.at \in {"idle", "done"}
    /\ calls < MaxCalls
    /\ calls' = calls + 1
    /\ LevelFrom(l, INFO, "op",
           <<FieldString("action", action), FieldAny("context", MapV("ctx1"))>>, op)
    /\ recovery' = [NoRecovery EXCEPT !.at = at, !.op = op, !.l = l,
                                      !.hasRecoveryFn = hasRecoveryFn,
                                      !.e0 = Len(entries)]
    /\ UNCHANGED RecoveryFrame

\* ExecuteWithRecovery(operation, fn, recoveryFn, context) is entered.
ExecuteWithRecovery(l, hasRecoveryFn) ==
    RecoveryEnter("ExecuteWithRecovery", l, hasRecoveryFn, "EXECUTE_WITH_RECOVERY", "fn")

\* err := fn(): with no error the method returns err (nil); else it logs
\* Warn(operation, action RECOVERY_NEEDED, error, context) and, if
\* recoveryFn is nil, returns err.
RecoveryCallFn(err) ==
    /\ recovery.at = "fn"
    /\ IF err = Nil
       THEN UNCHANGED <<maps, tarrs, entries, uuids, writes, wformatter, written, reported, hist>>
       ELSE LevelFrom(recovery.l, WARN, "op",
                <<FieldString("action", "RECOVERY_NEEDED"),
                  FieldString("error", err),
                  FieldAny("context", MapV("ctx1"))>>, "ExecuteWithRecovery")
    /\ recovery' = [recovery EXCEPT
           !.fn = Append(@, err),
           !.err = err,
           !.at = IF err # Nil /\ recovery.hasRecoveryFn THEN "recoveryFn" ELSE "done",
           !.returned = IF err # Nil /\ recovery.hasRecoveryFn THEN @ ELSE err]
    /\ UNCHANGED <<RecoveryFrame, calls>>

\* Mutant of CallRecoveryFn: a successful recovery clears the error.
CallRecoveryFnSuppress(recoveryErr) ==
    /\ recovery.at = "recoveryFn"
    /\ IF recoveryErr # Nil
       THEN LevelFrom(recovery.l, ERROR, "error_handled",
                HandleErrorFields(recoveryErr, "RECOVERY_FAILED", "recovery failed"),
                "HandleError")
       ELSE LevelFrom(recovery.l, INFO, "recovery_executed",
                <<FieldString("original_error", recovery.err),
                  FieldString("recovery_action", "custom_recovery"),
                  FieldAny("recovery_result", StrV("success")),
                  FieldAny("context", MapV("ctx1"))>>, "HandleRecovery")
    /\ recovery' = [recovery EXCEPT
           !.recoveryFn = Append(@, recovery.err),
           !.recoveryErr = recoveryErr,
           !.at = "done",
           !.returned = recoveryErr]
    /\ UNCHANGED <<RecoveryFrame, calls>>

\* recoveryErr := recoveryFn(err): with an error, HandleError(recoveryErr,
\* context, WithErrorCode("RECOVERY_FAILED"), WithResolution(...)) and
\* return recoveryErr; else HandleRecovery(err, "custom_recovery",
\* "success", context), which logs Info("recovery_executed", ...), and
\* return err.
CallRecoveryFn(recoveryErr) ==
    /\ recovery.at = "recoveryFn"
    /\ IF recoveryErr # Nil
       THEN LevelFrom(recovery.l, ERROR, "error_handled",
                HandleErrorFields(recoveryErr, "RECOVERY_FAILED", "recovery failed"),
                "HandleError")
       ELSE LevelFrom(recovery.l, INFO, "recovery_executed",
                <<FieldString("original_error", recovery.err),
                  FieldString("recovery_action", "custom_recovery"),
                  FieldAny("recovery_result", StrV("success")),
                  FieldAny("context", MapV("ctx1"))>>, "HandleRecovery")
    /\ recovery' = [recovery EXCEPT
           !.recoveryFn = Append(@, recovery.err),
           !.recoveryErr = recoveryErr,
           !.at = "done",
           !.returned = IF recoveryErr # Nil THEN recoveryErr ELSE recovery.err]
    /\ UNCHANGED <<RecoveryFrame, calls>>

\* ExecuteWithPanicRecovery(operation, fn, context) is entered: the
\* deferred function is registered and Info(operation, action
\* EXECUTE_WITH_PANIC_RECOVERY, context) is logged.
ExecuteWithPanicRecovery(l) ==
    RecoveryEnter("ExecuteWithPanicRecovery", l, FALSE, "EXECUTE_WITH_PANIC_RECOVERY",
                  "panicFn")

\* Mutant of PanicFn: the deferred function does not assign the result.
PanicFnResultNotSet(v) ==
    /\ recovery.at = "panicFn"
    /\ IF v = Nil
       THEN UNCHANGED <<maps, tarrs, entries, uuids, writes, wformatter, written, reported, hist>>
       ELSE LevelFrom(recovery.l, FATAL, "panic_recovered",
                <<FieldString("panic_value", v),
                  FieldString("stack_trace", "stack"),
                  FieldAny("context", MapV("ctx1"))>>, "HandlePanic")
    /\ recovery' = [recovery EXCEPT
           !.fn = Append(@, v), !.at = "done", !.returned = Nil, !.propagated = FALSE]
    /\ UNCHANGED <<RecoveryFrame, calls>>

\* fn(): it returns normally (v is Nil) and the method returns nil, or it
\* panics with value v: the deferred function runs, recover() ends the
\* panic and gives v, which is not nil, so recovered = v and HandlePanic
\* logs Fatal("panic_recovered", panic_value, stack_trace, context); the
\* method returns recovered.
PanicFn(v) ==
    /\ recovery.at = "panicFn"
    /\ IF v = Nil
       THEN UNCHANGED <<maps, tarrs, entries, uuids, writes, wformatter, written, reported, hist>>
       ELSE LevelFrom(recovery.l, FATAL, "panic_recovered",
                <<FieldString("panic_value", v),
                  FieldString("stack_trace", "stack"),
                  FieldAny("context", MapV("ctx1"))>>, "HandlePanic")
    /\ recovery' = [recovery EXCEPT
           !.fn = Append(@, v), !.at = "done", !.returned = v, !.propagated = FALSE]
    /\ UNCHANGED <<RecoveryFrame, calls>>

\* ------------------------------------------------------------ derivation
\* The tail of every With* method: the changed clone c is a new Logger.
Derive(l, op, c, ms, ta, addFields, addTags) ==
    /\ Called(op, l, -1)
    /\ loggers' = Append(loggers, c)
    /\ maps' = ms
    /\ tarrs' = ta
    /\ lineage' = Append(lineage, [parent |-> l, op |-> op,
                                   fields |-> addFields, tags |-> addTags,
                                   inherited |-> c.writers.len])
    /\ UNCHANGED <<warrs, entries, trackers, batches, uuids, clock, writes, wformatter, written, reported, hist>>

WithContext(l, ctx) ==
    LET c == clone(loggers[l], maps, tarrs) IN
    Derive(l, "WithContext", [c.logger EXCEPT !.context = ctx], c.maps, c.tarrs,
           EmptyMap, <<>>)

\* Mutant of WithField: the field is set in the receiver's map.
WithFieldOnReceiver(l, key, value) ==
    LET c == clone(loggers[l], maps, tarrs) IN
    Derive(l, "WithField", c.logger,
           [c.maps EXCEPT ![loggers[l].fields] = MapPut(@, key, value)], c.tarrs,
           MapPut(EmptyMap, key, value), <<>>)

WithField(l, key, value) ==
    LET c == clone(loggers[l], maps, tarrs) IN
    Derive(l, "WithField", c.logger,
           [c.maps EXCEPT ![c.logger.fields] = MapPut(@, key, value)], c.tarrs,
           MapPut(EmptyMap, key, value), <<>>)

\* for k, v := range fields { newLogger.fields[k] = v }
MapMerge(m, fields) ==
    [k \in (DOMAIN m) \cup (DOMAIN fields) |->
        IF k \in DOMAIN fields THEN fields[k] ELSE m[k]]

WithFields(l, fields) ==
    LET c == clone(loggers[l], maps, tarrs) IN
    Derive(l, "WithFields", c.logger,
           [c.maps EXCEPT ![c.logger.fields] = MapMerge(@, fields)], c.tarrs,
           fields, <<>>)

WithTag(l, tag) ==
    LET c == clone(loggers[l], maps, tarrs)
        ap == GoAppend(c.tarrs, c.logger.tags, <<tag>>, "")
    IN Derive(l, "WithTag", [c.logger EXCEPT !.tags = ap.slice], c.maps, ap.heap,
              EmptyMap, <<tag>>)

WithTags(l, tags) ==
    LET c == clone(loggers[l], maps, tarrs)
        ap == GoAppend(c.tarrs, c.logger.tags, tags, "")
    IN Derive(l, "WithTags", [c.logger EXCEPT !.tags = ap.slice], c.maps, ap.heap,
              EmptyMap, tags)

WithTraceID(l, traceID) ==
    LET c == clone(loggers[l], maps, tarrs) IN
    Derive(l, "WithTraceID", [c.logger EXCEPT !.traceID = traceID], c.maps, c.tarrs,
           EmptyMap, <<>>)

WithSpanID(l, spanID) ==
    LET c == clone(loggers[l], maps, tarrs) IN
    Derive(l, "WithSpanID", [c.logger EXCEPT !.spanID = spanID], c.maps, c.tarrs,
           EmptyMap, <<>>)

WithParentID(l, parentID) ==
    LET c == clone(loggers[l], maps, tarrs) IN
    Derive(l, "WithParentID", [c.logger EXCEPT !.parentID = parentID], c.maps, c.tarrs,
           EmptyMap, <<>>)

\* -------------------------------------------------------------- mutators
\* Mutant of Mutate: a Logger made by a With* method reads its level and
\* its info switches from the Logger it was made from.
MutateThroughParent(l, op, lg) ==
    /\ Called(op, l, -1)
    /\ loggers' = [k \in 1..Len(loggers) |->
                      IF k = l THEN lg
                      ELSE IF lineage[k].parent = l
                           THEN [loggers[k] EXCEPT
                                    !.level = lg.level,
                                    !.includeSystemInfo = lg.includeSystemInfo,
                                    !.includeRuntimeInfo = lg.includeRuntimeInfo]
                           ELSE loggers[k]]
    /\ UNCHANGED <<maps, tarrs, warrs, entries, trackers, batches, uuids, clock, writes, wformatter, written,
                   reported, hist, lineage>>

Mutate(l, op, lg) ==
    /\ Called(op, l, -1)
    /\ loggers' = [loggers EXCEPT ![l] = lg]
    /\ UNCHANGED <<maps, tarrs, warrs, entries, trackers, batches, uuids, clock, writes, wformatter, written,
                   reported, hist, lineage>>

SetLevel(l, level) == Mutate(l, "SetLevel", [loggers[l] EXCEPT !.level = level])

SetFormatter(l, formatter) ==
    Mutate(l, "SetFormatter", [loggers[l] EXCEPT !.formatter = formatter])

EnableSystemInfo(l, enabled) ==
    Mutate(l, "EnableSystemInfo", [loggers[l] EXCEPT !.includeSystemInfo = enabled])

EnableRuntimeInfo(l, enabled) ==
    Mutate(l, "EnableRuntimeInfo", [loggers[l] EXCEPT !.includeRuntimeInfo = enabled])

\* l.writers = append(l.writers, writer)
AddWriter(l, writer) ==
    LET ap == GoAppend(warrs, loggers[l].writers, <<writer>>, 0) IN
    /\ CalledOn("AddWriter", l, -1, writer)
    /\ warrs' = ap.heap
    /\ loggers' = [loggers EXCEPT ![l].writers = ap.slice]
    /\ UNCHANGED <<maps, tarrs, entries, trackers, batches, uuids, clock, writes, wformatter, written,
                   reported, hist, lineage>>

\* Time passes between two calls.
Tick ==
    /\ clock < MaxClock
    /\ clock' = clock + 1
    /\ UNCHANGED <<loggers, maps, tarrs, warrs, entries, trackers, batches, uuids,
                   writes, wformatter, written, reported, calls, hist, lineage, last, mu, pc, retry, recovery, buffered, rotating, collector>>

\* ------------------------------------------------------------ goroutines
\* The same methods, called by several goroutines on shared Loggers.  A
\* method is a sequence of steps; pc[t].at is the step goroutine t takes
\* next, and a step on the mutex waits until the mutex allows it.
Others == <<loggers, maps, tarrs, warrs, entries, trackers, batches, uuids, clock,
            writes, wformatter, written, reported, hist, lineage, retry, recovery, buffered, rotating, collector>>

\* Goroutine t calls method op on Logger l; the method starts at step at.
Call(t, op, l, level, fields, arg, at) ==
    /\ pc[t].at = "idle"
    /\ calls < MaxCalls
    /\ calls' = calls + 1
    /\ pc' = [pc EXCEPT ![t] = [Idle EXCEPT !.at = at, !.op = op, !.l = l,
                                            !.level = level, !.fields = fields,
                                            !.arg = arg]]
    /\ UNCHANGED <<Others, last, mu>>

\* Debug/Info/Warn/Error/Fatal are entered: the first statement is the
\* comparison of l.level.
CallLevelMethod(t, l, level, name) == Call(t, name, l, level, <<>>, 0, "levelCheck")

\* if l.level <= LEVEL: l.level is read, with no lock taken; the method
\* calls log or returns.
LevelCheck(t) ==
    /\ pc[t].at = "levelCheck"
    /\ pc' = [pc EXCEPT ![t] = IF loggers[pc[t].l].level <= pc[t].level
                               THEN [@ EXCEPT !.at = "RLock"] ELSE Idle]
    /\ UNCHANGED <<Others, calls, last, mu>>

\* StartOperation is entered: the first statement builds the tracker.
CallStartOperation(t, l) == Call(t, "StartOperation", l, INFO, <<>>, 0, "copyFields")

\* tracker := &OperationTracker{..., Context: l.copyFields()}: l.fields is
\* read, with no lock taken; then log(INFO, ...) is called.
TrackerCopyFields(t) ==
    LET l == pc[t].l
        cf == copyFields(loggers[l], maps)
        id == UUID(uuids + 1)
    IN /\ pc[t].at = "copyFields"
       /\ trackers' = Append(trackers,
              [ID |-> id, Operation |-> "op1", StartTime |-> clock,
               Input |-> "in1", Context |-> cf.id, Logger |-> l, parent |-> 0,
               by |-> [op |-> "StartOperation", from |-> l]])
       /\ maps' = cf.maps
       /\ uuids' = uuids + 1
       /\ pc' = [pc EXCEPT ![t].at = "RLock",
                           ![t].fields = <<FieldString("action", ActionStart),
                                           FieldString("operation_id", id),
                                           FieldAny("input", MapV("in1"))>>]
       /\ UNCHANGED <<loggers, tarrs, warrs, entries, batches, clock, writes, wformatter, written,
                      reported, hist, lineage, calls, last, mu, retry, recovery, buffered, rotating, collector>>

\* l.mu.RLock() in log: waits while a goroutine holds the write lock.
RLock(t) ==
    /\ pc[t].at = "RLock"
    /\ mu[pc[t].l].writer = 0
    /\ mu' = [mu EXCEPT ![pc[t].l].readers = @ \cup {t}]
    /\ pc' = [pc EXCEPT ![t].at = "build"]
    /\ UNCHANGED <<Others, calls, last>>

\* log builds the Entry and calls writeEntry, which starts ranging over
\* l.writers: the goroutine enters the first writer's Write, or with no
\* writer returns to the deferred RUnlock.
BuildEntry(t) ==
    LET l == pc[t].l
        ws == loggers[l].writers
    IN /\ pc[t].at = "build"
       /\ buildEntry(l, pc[t].level, "msg", pc[t].fields, maps, uuids, pc[t].op)
       /\ pc' = [pc EXCEPT ![t].e = Len(entries) + 1, ![t].ws = ws, ![t].i = 1,
                           ![t].at = IF ws.len >= 1 THEN "Write" ELSE "RUnlock"]
       /\ UNCHANGED <<loggers, warrs, trackers, batches, clock, writes, wformatter, written, reported,
                      lineage, calls, last, mu, retry, recovery, buffered, rotating, collector>>

\* writer.Write(entry) returns (with an error for a failing writer, which
\* is printed); the loop goes to the next writer or ends.
WriteReturn(t) ==
    LET w == warrs[pc[t].ws.arr][pc[t].i] IN
    /\ pc[t].at = "Write"
    /\ writes' = Append(writes, [w |-> w, e |-> pc[t].e, err |-> w \in FailingWriters])
    /\ wformatter' = WriteFormatters(<<[w |-> w]>>)
    /\ written' = written \o WriteOutput(<<[w |-> w, e |-> pc[t].e]>>)
    /\ reported' = reported + (IF w \in FailingWriters THEN 1 ELSE 0)
    /\ pc' = [pc EXCEPT ![t].i = @ + 1,
                        ![t].at = IF pc[t].i + 1 <= pc[t].ws.len THEN "Write" ELSE "RUnlock"]
    /\ UNCHANGED <<loggers, maps, tarrs, warrs, entries, trackers, batches, uuids, clock,
                   hist, lineage, calls, last, mu, retry, recovery, buffered, rotating, collector>>

\* defer l.mu.RUnlock(): log returns.
RUnlock(t) ==
    /\ pc[t].at = "RUnlock"
    /\ mu' = [mu EXCEPT ![pc[t].l].readers = @ \ {t}]
    /\ pc' = [pc EXCEPT ![t] = Idle]
    /\ UNCHANGED <<Others, calls, last>>

\* A mutator or a With* method is entered: the first statement is l.mu.Lock().
MutatorOps == {"SetLevel", "AddWriter", "SetFormatter", "EnableSystemInfo",
               "EnableRuntimeInfo"}
CallLocked(t, op, l, arg) == Call(t, op, l, 0, <<>>, arg, "Lock")

\* l.mu.Lock(): waits while a goroutine holds the read or the write lock.
Lock(t) ==
    /\ pc[t].at = "Lock"
    /\ mu[pc[t].l] = Unlocked
    /\ mu' = [mu EXCEPT ![pc[t].l].writer = t]
    /\ pc' = [pc EXCEPT ![t].at = "locked"]
    /\ UNCHANGED <<Others, calls, last>>

\* The body of a mutator, under the write lock: new is the Logger after it.
LockedWrite(t, op, new) ==
    /\ pc[t].at = "locked"
    /\ pc[t].op = op
    /\ loggers' = [loggers EXCEPT ![pc[t].l] = new]
    /\ pc' = [pc EXCEPT ![t].at = "Unlock"]
    /\ UNCHANGED <<maps, tarrs, warrs, entries, trackers, batches, uuids, clock, writes, wformatter, written,
                   reported, hist, lineage, calls, last, mu, retry, recovery, buffered, rotating, collector>>

\* l.level = level
LockedSetLevel(t) ==
    LockedWrite(t, "SetLevel", [loggers[pc[t].l] EXCEPT !.level = pc[t].arg])

\* l.formatter = formatter
LockedSetFormatter(t) ==
    LockedWrite(t, "SetFormatter", [loggers[pc[t].l] EXCEPT !.formatter = "text"])

\* l.includeSystemInfo = enabled
LockedEnableSystemInfo(t) ==
    LockedWrite(t, "EnableSystemInfo",
                [loggers[pc[t].l] EXCEPT !.includeSystemInfo = (pc[t].arg = 1)])

\* l.includeRuntimeInfo = enabled
LockedEnableRuntimeInfo(t) ==
    LockedWrite(t, "EnableRuntimeInfo",
                [loggers[pc[t].l] EXCEPT !.includeRuntimeInfo = (pc[t].arg = 1)])

\* l.writers = append(l.writers, writer)
LockedAddWriter(t) ==
    LET l == pc[t].l
        ap == GoAppend(warrs, loggers[l].writers, <<pc[t].arg>>, 0)
    IN /\ pc[t].at = "locked"
       /\ pc[t].op = "AddWriter"
       /\ warrs' = ap.heap
       /\ loggers' = [loggers EXCEPT ![l].writers = ap.slice]
       /\ pc' = [pc EXCEPT ![t].at = "Unlock"]
       /\ UNCHANGED <<maps, tarrs, entries, trackers, batches, uuids, clock, writes, wformatter, written,
                      reported, hist, lineage, calls, last, mu, retry, recovery, buffered, rotating, collector>>

\* newLogger := l.clone(); newLogger.fields[key] = value: the new Logger
\* has a mutex of its own.
LockedWithField(t) ==
    LET l == pc[t].l
        c == clone(loggers[l], maps, tarrs)
    IN /\ pc[t].at = "locked"
       /\ pc[t].op = "WithField"
       /\ loggers' = Append(loggers, c.logger)
       /\ maps' = [c.maps EXCEPT ![c.logger.fields] = MapPut(@, "k1", StrV("v1"))]
       /\ tarrs' = c.tarrs
       /\ lineage' = Append(lineage, [parent |-> l, op |-> "WithField",
                                      fields |-> MapPut(EmptyMap, "k1", StrV("v1")),
                                      tags |-> <<>>, inherited |-> c.logger.writers.len])
       /\ mu' = Append(mu, Unlocked)
       /\ pc' = [pc EXCEPT ![t].at = "Unlock"]
       /\ UNCHANGED <<warrs, entries, trackers, batches, uuids, clock, writes, wformatter, written, reported,
                      hist, calls, last, retry, recovery, buffered, rotating, collector>>

\* defer l.mu.Unlock(): the method returns.
Unlock(t) ==
    /\ pc[t].at = "Unlock"
    /\ mu' = [mu EXCEPT ![pc[t].l].writer = 0]
    /\ pc' = [pc EXCEPT ![t] = Idle]
    /\ UNCHANGED <<Others, calls, last>>

\* ------------------------------------------------------ the specification
\* The application holds one Logger made by New(level); each call runs to
\* completion before the next one starts.
Init ==
    /\ \E level \in Levels : loggers = <<New(level, 1)>>
    /\ maps = <<EmptyMap>>
    /\ tarrs = <<>>
    /\ warrs = <<>>
    /\ entries = <<>>
    /\ trackers = <<>>
    /\ batches = <<>>
    /\ uuids = 0
    /\ clock = 0
    /\ writes = <<>>
    /\ wformatter = [w \in AllWriters |-> Nil]
    /\ written = <<>>
    /\ reported = 0
    /\ calls = 0
    /\ hist = <<>>
    /\ lineage = <<[parent |-> 0, op |-> "New", fields |-> EmptyMap, tags |-> <<>>,
                    inherited |-> 0]>>
    /\ last = LastCall("New", 1, -1)
    /\ mu = <<Unlocked>>
    /\ pc = [t \in Threads |-> Idle]
    /\ retry = NoRetry
    /\ recovery = NoRecovery
    /\ buffered = NoBuffered
    /\ rotating = NoRotating
    /\ collector = NoCollector

FieldMaps == {[k \in {"k1", "k2"} |-> StrV("v2")]}
TagLists == {<<"x", "y">>}
LoggerIds == 1..Len(loggers)

\* Every operation of the Logger, in any order.
Next ==
    \/ \E l \in LoggerIds, fields \in FieldLists : Debug(l, fields)
    \/ \E l \in LoggerIds, fields \in FieldLists : Info(l, fields)
    \/ \E l \in LoggerIds, fields \in FieldLists : Warn(l, fields)
    \/ \E l \in LoggerIds, fields \in FieldLists : Error(l, fields)
    \/ \E l \in LoggerIds, fields \in FieldLists : Fatal(l, fields)
    \/ \E l \in LoggerIds, input \in InputMaps : StartOperation(l, "op", input)
    \/ \E l \in LoggerIds, t \in 1..Len(trackers), output \in OutputMaps :
          CompleteOperation(l, t, output)
    \/ \E l \in LoggerIds, t \in 1..Len(trackers), err \in Errs :
          ErrorOperation(l, t, err, "fix")
    \/ \E l \in LoggerIds, err \in Errs : LogError(l, err, "ctx1", TRUE)
    \/ \E l \in LoggerIds, err \in Errs : LogRetry(l, "op", 1, err, 1)
    \/ \E l \in LoggerIds, err \in Errs : LogRecovery(l, "op", err, "restart")
    \/ \E l \in LoggerIds : WithContext(l, "ctx1")
    \/ \E l \in LoggerIds : WithField(l, "k1", StrV("v1"))
    \/ \E l \in LoggerIds, fields \in FieldMaps : WithFields(l, fields)
    \/ \E l \in LoggerIds, tag \in TagNames : WithTag(l, tag)
    \/ \E l \in LoggerIds, tags \in TagLists : WithTags(l, tags)
    \/ \E l \in LoggerIds : WithTraceID(l, "trace1")
    \/ \E l \in LoggerIds : WithSpanID(l, "span1")
    \/ \E l \in LoggerIds : WithParentID(l, "parent1")
    \/ \E l \in LoggerIds, level \in Levels : SetLevel(l, level)
    \/ \E l \in LoggerIds : SetFormatter(l, "text")
    \/ \E l \in LoggerIds, enabled \in BOOLEAN : EnableSystemInfo(l, enabled)
    \/ \E l \in LoggerIds, enabled \in BOOLEAN : EnableRuntimeInfo(l, enabled)
    \/ \E l \in LoggerIds, writer \in Writers : AddWriter(l, writer)
    \/ Tick

Spec == Init /\ [][Next]_vars

\* An application that configures its Logger (level, writers) and logs
\* through it, without deriving Loggers.
DispatchNext ==
    \/ \E l \in LoggerIds : Debug(l, <<>>)
    \/ \E l \in LoggerIds : Info(l, <<>>)
    \/ \E l \in LoggerIds : Warn(l, <<>>)
    \/ \E l \in LoggerIds : Error(l, <<>>)
    \/ \E l \in LoggerIds : Fatal(l, <<>>)
    \/ \E l \in LoggerIds, input \in InputMaps : StartOperation(l, "op", input)
    \/ \E l \in LoggerIds, t \in 1..Len(trackers), output \in OutputMaps :
          CompleteOperation(l, t, output)
    \/ \E l \in LoggerIds, t \in 1..Len(trackers), err \in Errs :
          ErrorOperation(l, t, err, "fix")
    \/ \E l \in LoggerIds, err \in Errs : LogError(l, err, "ctx1", TRUE)
    \/ \E l \in LoggerIds, err \in Errs : LogRetry(l, "op", 1, err, 1)
    \/ \E l \in LoggerIds, err \in Errs : LogRecovery(l, "op", err, "restart")
    \/ \E l \in LoggerIds, level \in Levels : SetLevel(l, level)
    \/ \E l \in LoggerIds, writer \in Writers : AddWriter(l, writer)

DispatchSpec == Init /\ [][DispatchNext]_vars

\* An application that derives Loggers from New(INFO), the Logger of
\* Default(), and logs through them with per-call fields: Debug is
\* filtered out, Info and Error are not.
DeriveInit == Init /\ loggers[1].level = INFO

DeriveNext ==
    \/ \E l \in LoggerIds, fields \in FieldLists : Debug(l, fields)
    \/ \E l \in LoggerIds, fields \in FieldLists : Info(l, fields)
    \/ \E l \in LoggerIds, fields \in FieldLists : Error(l, fields)
    \/ \E l \in LoggerIds, input \in InputMaps : StartOperation(l, "op", input)
    \/ \E l \in LoggerIds : WithContext(l, "ctx1")
    \/ \E l \in LoggerIds : WithField(l, "k1", StrV("v1"))
    \/ \E l \in LoggerIds, fields \in FieldMaps : WithFields(l, fields)
    \/ \E l \in LoggerIds, tag \in TagNames : WithTag(l, tag)
    \/ \E l \in LoggerIds, tags \in TagLists : WithTags(l, tags)
    \/ \E l \in LoggerIds : WithTraceID(l, "trace1")
    \/ \E l \in LoggerIds : WithSpanID(l, "span1")
    \/ \E l \in LoggerIds : WithParentID(l, "parent1")

DeriveSpec == DeriveInit /\ [][DeriveNext]_vars

\* An application that registers writers and tracks operations while
\* time passes.
TrackNext ==
    \/ \E l \in LoggerIds, input \in InputMaps : StartOperation(l, "op", input)
    \/ \E l \in LoggerIds, t \in 1..Len(trackers), output \in OutputMaps :
          CompleteOperation(l, t, output)
    \/ \E l \in LoggerIds, t \in 1..Len(trackers), err \in Errs,
          resolution \in Resolutions : ErrorOperation(l, t, err, resolution)
    \/ \E l \in LoggerIds, writer \in Writers : AddWriter(l, writer)
    \/ \E l \in LoggerIds : WithField(l, "k1", StrV("v1"))
    \/ Tick

TrackSpec == Init /\ [][TrackNext]_vars

\* The application has made a Logger with New(INFO) and registered its
\* three Writers with AddWriter (which leaves the writers slice with
\* length 3 and capacity 4); from then on it derives Loggers, registers
\* further Writers on any of them and logs.
RegisterAll(ws) ==
    LET a1 == GoAppend(<<>>, MakeSlice0, <<ws[1]>>, 0)
        a2 == GoAppend(a1.heap, a1.slice, <<ws[2]>>, 0)
    IN GoAppend(a2.heap, a2.slice, <<ws[3]>>, 0)

WriterInit ==
    /\ loggers = <<[New(INFO, 1) EXCEPT !.writers = RegisterAll(InitialWriters).slice]>>
    /\ warrs = RegisterAll(InitialWriters).heap
    /\ maps = <<EmptyMap>>
    /\ tarrs = <<>>
    /\ entries = <<>>
    /\ trackers = <<>>
    /\ batches = <<>>
    /\ uuids = 0
    /\ clock = 0
    /\ writes = <<>>
    /\ wformatter = [w \in AllWriters |-> Nil]
    /\ written = <<>>
    /\ reported = 0
    /\ calls = 0
    /\ hist = <<>>
    /\ lineage = <<[parent |-> 0, op |-> "New", fields |-> EmptyMap, tags |-> <<>>,
                    inherited |-> 0]>>
    /\ last = [LastCall("AddWriter", 1, -1) EXCEPT !.t = InitialWriters[3]]
    /\ mu = <<Unlocked>>
    /\ pc = [t \in Threads |-> Idle]
    /\ retry = NoRetry
    /\ recovery = NoRecovery
    /\ buffered = NoBuffered
    /\ rotating = NoRotating
    /\ collector = NoCollector

WriterNext ==
    \/ \E l \in LoggerIds, writer \in Writers : AddWriter(l, writer)
    \/ \E l \in LoggerIds : WithField(l, "k1", StrV("v1"))
    \/ \E l \in LoggerIds : WithTag(l, "x")
    \/ \E l \in LoggerIds : Info(l, <<>>)

WriterSpec == WriterInit /\ [][WriterNext]_vars

\* The application makes one ExecuteWithRetry call, on a RetryHandler of
\* a Logger made by New(level) that has a Writer; fn returns whatever it
\* returns.
RetryInit ==
    /\ \E level \in {INFO, WARN, ERROR} :
           loggers = <<[New(level, 1) EXCEPT
                          !.writers = GoAppend(<<>>, MakeSlice0, <<1>>, 0).slice]>>
    /\ warrs = GoAppend(<<>>, MakeSlice0, <<1>>, 0).heap
    /\ maps = <<EmptyMap>>
    /\ tarrs = <<>>
    /\ entries = <<>>
    /\ trackers = <<>>
    /\ batches = <<>>
    /\ uuids = 0
    /\ clock = 0
    /\ writes = <<>>
    /\ wformatter = [w \in AllWriters |-> Nil]
    /\ written = <<>>
    /\ reported = 0
    /\ calls = 0
    /\ hist = <<>>
    /\ lineage = <<[parent |-> 0, op |-> "New", fields |-> EmptyMap, tags |-> <<>>,
                    inherited |-> 0]>>
    /\ last = [LastCall("AddWriter", 1, -1) EXCEPT !.t = 1]
    /\ mu = <<Unlocked>>
    /\ pc = [t \in Threads |-> Idle]
    /\ retry = NoRetry
    /\ recovery = NoRecovery
    /\ buffered = NoBuffered
    /\ rotating = NoRotating
    /\ collector = NoCollector

RetryNext ==
    \/ \E l \in LoggerIds, maxAttempts \in 1..MaxAttempts, backoff \in Backoffs :
           ExecuteWithRetry(l, maxAttempts, backoff)
    \/ RetryAttempt
    \/ \E err \in {Nil} \cup FnErrs : RetryCallFn(err)
    \/ RetrySuccess
    \/ HandleRetryableError
    \/ RetrySleep
    \/ HandleMaxRetriesExceeded
    \/ RetryReturn

RetrySpec == RetryInit /\ [][RetryNext]_vars

\* The application makes RecoveryHandler calls, one after the other, on a
\* handler of a Logger made by New(level) that has a Writer; fn and
\* recoveryFn do whatever they do.
RecoveryErrs == {"r1"}            \* the errors the recovery function returns
PanicValues == {"boom", "runtime error"}   \* the values fn panics with

RecoveryNext ==
    \/ \E l \in LoggerIds, hasRecoveryFn \in BOOLEAN : ExecuteWithRecovery(l, hasRecoveryFn)
    \/ \E err \in {Nil} \cup FnErrs : RecoveryCallFn(err)
    \/ \E recoveryErr \in {Nil} \cup RecoveryErrs : CallRecoveryFn(recoveryErr)
    \/ \E l \in LoggerIds : ExecuteWithPanicRecovery(l)
    \/ \E v \in {Nil} \cup PanicValues : PanicFn(v)

RecoveryInit ==
    /\ \E level \in Levels :
           loggers = <<[New(level, 1) EXCEPT
                          !.writers = GoAppend(<<>>, MakeSlice0, <<1>>, 0).slice]>>
    /\ warrs = GoAppend(<<>>, MakeSlice0, <<1>>, 0).heap
    /\ maps = <<EmptyMap>>
    /\ tarrs = <<>>
    /\ entries = <<>>
    /\ trackers = <<>>
    /\ batches = <<>>
    /\ uuids = 0
    /\ clock = 0
    /\ writes = <<>>
    /\ wformatter = [w \in AllWriters |-> Nil]
    /\ written = <<>>
    /\ reported = 0
    /\ calls = 0
    /\ hist = <<>>
    /\ lineage = <<[parent |-> 0, op |-> "New", fields |-> EmptyMap, tags |-> <<>>,
                    inherited |-> 0]>>
    /\ last = [LastCall("AddWriter", 1, -1) EXCEPT !.t = 1]
    /\ mu = <<Unlocked>>
    /\ pc = [t \in Threads |-> Idle]
    /\ retry = NoRetry
    /\ recovery = NoRecovery
    /\ buffered = NoBuffered
    /\ rotating = NoRotating
    /\ collector = NoCollector

RecoverySpec == RecoveryInit /\ [][RecoveryNext]_vars

\* An application that passes whatever it has to the operation and error
\* methods: a tracker or nil, an error or nil.
MaybeErrs == {Nil} \cup Errs

NilNext ==
    \/ \E l \in LoggerIds, input \in InputMaps : StartOperation(l, "op", input)
    \/ \E l \in LoggerIds, t \in 0..Len(trackers), output \in OutputMaps :
          CompleteOperation(l, t, output)
    \/ \E l \in LoggerIds, t \in 0..Len(trackers), err \in MaybeErrs :
          ErrorOperation(l, t, err, "fix")
    \/ \E l \in LoggerIds, err \in MaybeErrs : LogError(l, err, "ctx1", TRUE)
    \/ \E l \in LoggerIds, err \in MaybeErrs : LogRetry(l, "op", 1, err, 1)
    \/ \E l \in LoggerIds, err \in MaybeErrs : LogRecovery(l, "op", err, "restart")
    \/ \E l \in LoggerIds : AddWriter(l, 1)

NilSpec == Init /\ [][NilNext]_vars

\* An application that has made a Logger with New(INFO) and registered a
\* Writer; it sets the level and the info switches of its Loggers, derives
\* Loggers and logs through them.
SwitchInit == RetryInit /\ loggers[1].level = INFO

SwitchNext ==
    \/ \E l \in LoggerIds : Info(l, <<>>)
    \/ \E l \in LoggerIds : Error(l, <<>>)
    \/ \E l \in LoggerIds : WithField(l, "k1", StrV("v1"))
    \/ \E l \in LoggerIds : WithTag(l, "x")
    \/ \E l \in LoggerIds, level \in {DEBUG, ERROR} : SetLevel(l, level)
    \/ \E l \in LoggerIds, enabled \in BOOLEAN : EnableSystemInfo(l, enabled)
    \/ \E l \in LoggerIds, enabled \in BOOLEAN : EnableRuntimeInfo(l, enabled)

SwitchSpec == SwitchInit /\ [][SwitchNext]_vars

\* The application makes trackers from a Logger, from other trackers and
\* from a batch, adds context to them and ends them.
BatchIds == 1..Len(batches)

BatchNext ==
    \/ \E l \in LoggerIds, input \in InputMaps : StartOperation(l, "op", input)
    \/ \E t \in 1..Len(trackers), input \in InputMaps : CreateSubOperation(t, "sub", input)
    \/ \E t \in 1..Len(trackers), key \in Keys : AddContext(t, key, StrV("v1"))
    \/ \E t \in 1..Len(trackers), output \in OutputMaps : TrackerComplete(t, output)
    \/ \E t \in 1..Len(trackers), err \in Errs : TrackerError(t, err, "fix")
    \/ \E l \in LoggerIds : NewBatchOperationTracker(l, "batch")
    \/ \E b \in BatchIds, key \in Keys : SetBatchContext(b, key, StrV("v2"))
    \/ \E b \in BatchIds, input \in InputMaps : AddOperation(b, "member", input)
    \/ \E b \in BatchIds : BatchComplete(b, "sum1")
    \/ \E l \in LoggerIds : SetLevel(l, ERROR)

BatchSpec == DeriveInit /\ [][BatchNext]_vars

\* The application has made a Logger with New(level), for any level, and
\* registered a Writer; it makes trackers from the Logger, from other
\* trackers and from a batch, and ends them.
AnyLevelInit == RecoveryInit

AnyLevelTrackNext ==
    \/ \E l \in LoggerIds, input \in InputMaps : StartOperation(l, "op", input)
    \/ \E t \in 1..Len(trackers), input \in InputMaps : CreateSubOperation(t, "sub", input)
    \/ \E t \in 1..Len(trackers), output \in OutputMaps : TrackerComplete(t, output)
    \/ \E t \in 1..Len(trackers), err \in Errs : TrackerError(t, err, "fix")
    \/ \E l \in LoggerIds : NewBatchOperationTracker(l, "batch")
    \/ \E b \in BatchIds, input \in InputMaps : AddOperation(b, "member", input)

AnyLevelTrackSpec == AnyLevelInit /\ [][AnyLevelTrackNext]_vars

\* An application that registers file and console Writers made without a
\* formatter, sets the default formatter of its Loggers and logs.
Formatters == {"text", "json"}

FormatNext ==
    \/ \E l \in LoggerIds, writer \in Writers : AddWriter(l, writer)
    \/ \E l \in LoggerIds, formatter \in Formatters : SetFormatter(l, formatter)
    \/ \E l \in LoggerIds : Info(l, <<>>)
    \/ \E l \in LoggerIds : WithField(l, "k1", StrV("v1"))

FormatSpec == DeriveInit /\ [][FormatNext]_vars

\* The application's goroutines call one Logger (and the Loggers derived
\* from it) concurrently; the steps of their calls interleave.
ConcNext ==
    \/ \E t \in Threads, l \in LoggerIds : CallLevelMethod(t, l, DEBUG, "Debug")
    \/ \E t \in Threads, l \in LoggerIds : CallLevelMethod(t, l, INFO, "Info")
    \/ \E t \in Threads, l \in LoggerIds : CallLevelMethod(t, l, WARN, "Warn")
    \/ \E t \in Threads, l \in LoggerIds : CallLevelMethod(t, l, ERROR, "Error")
    \/ \E t \in Threads, l \in LoggerIds : CallLevelMethod(t, l, FATAL, "Fatal")
    \/ \E t \in Threads, l \in LoggerIds : CallStartOperation(t, l)
    \/ \E t \in Threads, l \in LoggerIds, level \in {DEBUG, ERROR} :
           CallLocked(t, "SetLevel", l, level)
    \/ \E t \in Threads, l \in LoggerIds, writer \in Writers :
           CallLocked(t, "AddWriter", l, writer)
    \/ \E t \in Threads, l \in LoggerIds : CallLocked(t, "SetFormatter", l, 0)
    \/ \E t \in Threads, l \in LoggerIds : CallLocked(t, "EnableSystemInfo", l, 0)
    \/ \E t \in Threads, l \in LoggerIds : CallLocked(t, "EnableRuntimeInfo", l, 1)
    \/ \E t \in Threads, l \in LoggerIds : CallLocked(t, "WithField", l, 0)
    \/ \E t \in Threads : LevelCheck(t)
    \/ \E t \in Threads : TrackerCopyFields(t)
    \/ \E t \in Threads : RLock(t)
    \/ \E t \in Threads : BuildEntry(t)
    \/ \E t \in Threads : WriteReturn(t)
    \/ \E t \in Threads : RUnlock(t)
    \/ \E t \in Threads : Lock(t)
    \/ \E t \in Threads : LockedSetLevel(t)
    \/ \E t \in Threads : LockedSetFormatter(t)
    \/ \E t \in Threads : LockedEnableSystemInfo(t)
    \/ \E t \in Threads : LockedEnableRuntimeInfo(t)
    \/ \E t \in Threads : LockedAddWriter(t)
    \/ \E t \in Threads : LockedWithField(t)
    \/ \E t \in Threads : Unlock(t)

ConcSpec == DeriveInit /\ [][ConcNext]_vars

\* ================================================================ claims
EntryIds == 1..Len(entries)

\* The Write invocations that were handed Entry e, in order.
WritesOf(e) == SelectSeq(writes, LAMBDA r : r.e = e)

\* C1: a level method called below the Logger's minimum level builds no
\* Entry and invokes Write on no Writer, however often it is repeated.
C1_FilteredCallDispatchesNothing ==
    (last.op \in LevelOps /\ last.level < last.minLevel) =>
        /\ Len(entries) = last.e0
        /\ Len(writes) = last.w0
        /\ reported = last.r0

\* A Debug call on a Logger at ERROR that has a writer, repeated.
C1_Witness ==
    /\ last.op = "Debug"
    /\ last.minLevel = ERROR
    /\ Len(last.view.writers) > 0
    /\ calls = 3
    /\ Len(writes) = 0

\* C2: every Entry handed to a Writer has a level at or above the minimum
\* level the Logger had when the call was made.
C2_DispatchedAtOrAboveMinLevel ==
    \A i \in 1..Len(writes) :
        entries[writes[i].e].Level >= hist[writes[i].e].minLevel

\* C3: one logging call invokes Write once on every registered writer, in
\* registration order, with the same Entry; every failure is reported
\* once and skips no later writer.
C3_FanOutComplete ==
    /\ \A e \in EntryIds :
          LET ws == hist[e].writers
              wr == WritesOf(e)
          IN /\ Len(wr) = Len(ws)
             /\ \A i \in 1..Len(ws) :
                   /\ wr[i].w = ws[i]
                   /\ wr[i].err = (ws[i] \in FailingWriters)
    /\ \A i, j \in 1..Len(writes) : i < j => writes[i].e <= writes[j].e
    /\ reported = Cardinality({i \in 1..Len(writes) : writes[i].err})

\* A call on a Logger whose first writer fails and whose second does not.
C3_Witness ==
    \E e \in EntryIds :
        /\ hist[e].writers = <<2, 1>>
        /\ Len(WritesOf(e)) = 2
        /\ reported = 1

\* What the derivation chain of Logger l added, from New down to l: the
\* arguments of the With* calls alone, whatever the heaps hold.
RECURSIVE ChainFields(_)
ChainFields(l) ==
    IF lineage[l].parent = 0 THEN lineage[l].fields
    ELSE MapMerge(ChainFields(lineage[l].parent), lineage[l].fields)

RECURSIVE ChainTags(_)
ChainTags(l) ==
    IF lineage[l].parent = 0 THEN lineage[l].tags
    ELSE ChainTags(lineage[l].parent) \o lineage[l].tags

RECURSIVE Ancestors(_)
Ancestors(l) ==
    IF lineage[l].parent = 0 THEN {l} ELSE {l} \cup Ancestors(lineage[l].parent)

PerCallKeys(e) == {hist[e].fields[i].Key : i \in 1..Len(hist[e].fields)}
ContextOf(e) == maps[entries[e].Context]
TagsOf(e) == SliceElems(tarrs, entries[e].Tags)

\* C4: a With* call leaves its receiver as it was (fields, tags, ids, level,
\* switches, writers), and an Entry logged through a Logger holds, beside
\* the per-call fields, only the fields of that Logger's own derivation
\* chain, with their values: nothing a Logger derived from it added.
C4_WithLeavesReceiver ==
    /\ last.op \in WithOps => LoggerView(last.l) = last.view
    /\ \A e \in EntryIds : \A k \in (DOMAIN ContextOf(e)) \ PerCallKeys(e) :
          /\ k \in DOMAIN ChainFields(hist[e].via)
          /\ ContextOf(e)[k] = ChainFields(hist[e].via)[k]

\* base.WithField("k1", ...) was called, and an Entry logged through base
\* afterwards has no k1.
C4_Witness ==
    \E c \in LoggerIds, e \in EntryIds :
        /\ lineage[c].op = "WithField"
        /\ lineage[c].parent = hist[e].via
        /\ hist[e].nLoggers >= c
        /\ "k1" \in DOMAIN maps[loggers[c].fields]
        /\ "k1" \notin DOMAIN ContextOf(e)

\* C5: Loggers derived from the same receiver are independent: the tags of
\* an Entry are the tags added along the derivation chain of the Logger it
\* was logged through, and its accumulated fields were added by that
\* Logger or one of its ancestors, never by a sibling or a descendant.
C5_DerivationsIndependent ==
    \A e \in EntryIds :
        /\ TagsOf(e) = ChainTags(hist[e].via)
        /\ \A k \in (DOMAIN ContextOf(e)) \ PerCallKeys(e) :
              \E a \in Ancestors(hist[e].via) : k \in DOMAIN lineage[a].fields
        /\ \A l \in LoggerIds :
              /\ SliceElems(tarrs, loggers[l].tags) = ChainTags(l)
              /\ maps[loggers[l].fields] = ChainFields(l)

\* d1 := base.WithTag("x") and d2 := base.WithTag("y"), then an Entry
\* logged through d1: it carries x and not y.
C5_Witness ==
    \E d1, d2 \in LoggerIds, e \in EntryIds :
        /\ d1 # d2
        /\ lineage[d1].parent = lineage[d2].parent
        /\ lineage[d1].tags = <<"x">>
        /\ lineage[d2].tags = <<"y">>
        /\ hist[e].via = d1
        /\ hist[e].nLoggers >= d2
        /\ TagsOf(e) = <<"x">>

\* C6: the context of an Entry is the Logger's accumulated fields overlaid
\* with the per-call fields: every per-call key is present with the value
\* of the last per-call field of that key, every other key is an
\* accumulated one with its accumulated value.
C6_ContextIsOverlay ==
    \A e \in EntryIds :
        LET f == hist[e].fields
            acc == hist[e].acc
            ctx == ContextOf(e)
        IN /\ DOMAIN ctx = (DOMAIN acc) \cup PerCallKeys(e)
           /\ \A i \in 1..Len(f) :
                 (\A j \in (i + 1)..Len(f) : f[j].Key # f[i].Key)
                     => ctx[f[i].Key] = f[i].Value
           /\ \A k \in (DOMAIN acc) \ PerCallKeys(e) : ctx[k] = acc[k]

\* A Logger that accumulated k1 = v1 logs with per-call fields k1 = v1,
\* k2 = v1, k1 = v2: the Entry holds k1 = v2.
C6_Witness ==
    \E e \in EntryIds :
        /\ "k1" \in DOMAIN hist[e].acc
        /\ hist[e].acc["k1"] = StrV("v1")
        /\ Len(hist[e].fields) = 3
        /\ ContextOf(e)["k1"] = StrV("v2")
        /\ ContextOf(e)["k2"] = StrV("v1")

\* C7: the context and tags of an Entry stay what they were when it was
\* dispatched, whatever is called later, and its context map is shared
\* with no other Entry, no Logger and no tracker.
C7_EntryCopiesAreFresh ==
    /\ \A e \in EntryIds :
          /\ ContextOf(e) = hist[e].ctx
          /\ TagsOf(e) = hist[e].tags
          /\ \A l \in LoggerIds :
                /\ loggers[l].fields # entries[e].Context
                /\ entries[e].Tags.arr # 0 => loggers[l].tags.arr # entries[e].Tags.arr
          /\ \A t \in 1..Len(trackers) : trackers[t].Context # entries[e].Context
    /\ \A e1, e2 \in EntryIds :
          e1 # e2 =>
             /\ entries[e1].Context # entries[e2].Context
             /\ entries[e1].Tags.arr # 0 => entries[e1].Tags.arr # entries[e2].Tags.arr

\* An Entry was dispatched through a Logger with fields and tags; later a
\* Logger was derived from that Logger with another value for a field the
\* Entry holds, and another Entry was logged with per-call fields.
C7_Witness ==
    \E e1, e2 \in EntryIds, c \in LoggerIds :
        /\ e1 < e2
        /\ lineage[c].parent = hist[e1].via
        /\ c > hist[e1].nLoggers
        /\ Len(hist[e2].fields) > 0
        /\ \E k \in DOMAIN lineage[c].fields :
              /\ k \in DOMAIN ContextOf(e1)
              /\ ContextOf(e1)[k] # lineage[c].fields[k]

\* C8: no goroutine is inside a Writer's Write while it holds the mutex of
\* the Logger it logs through, for reading or for writing; so a goroutine
\* waiting at Lock in a mutator or a With* method of that Logger is never
\* kept waiting by a goroutine that is inside Write.
C8_NoLockHeldInWrite ==
    /\ \A t \in Threads :
           pc[t].at = "Write" =>
               /\ t \notin mu[pc[t].l].readers
               /\ mu[pc[t].l].writer # t
    /\ \A t \in Threads, u \in Threads :
           (pc[t].at = "Write" /\ pc[u].at = "Lock" /\ pc[u].l = pc[t].l) =>
               t \notin mu[pc[t].l].readers

\* C9: a goroutine about to read the Logger's protected state (l.level in
\* the level check, l.fields in StartOperation and in log) holds the read
\* lock; so no level check is pending while another goroutine stands
\* inside a mutator of the same Logger, holding the write lock.
ProtectedReads == {"levelCheck", "copyFields", "build"}

C9_ReadsHoldReadLock ==
    /\ \A t \in Threads :
           pc[t].at \in ProtectedReads => t \in mu[pc[t].l].readers
    /\ \A t \in Threads, u \in Threads :
           ~ /\ pc[t].at \in {"levelCheck", "copyFields"}
             /\ pc[u].at = "locked"
             /\ pc[u].op \in MutatorOps
             /\ pc[u].l = pc[t].l

\* C10: StartOperation then CompleteOperation of that tracker, on a Logger
\* with one recording Writer, dispatches two Entries in that order: the
\* first has Action START, the second has Action COMPLETE, the given
\* output as Output, the tracker's input as Input and a Duration >= 0.
C10_StartCompleteAttributes ==
    \A e1, e2 \in EntryIds :
        ( /\ e2 = e1 + 1
          /\ hist[e1].op = "StartOperation"
          /\ hist[e2].op = "CompleteOperation"
          /\ hist[e2].fields[2] = hist[e1].fields[2]
          /\ hist[e1].writers = <<1>>
          /\ hist[e2].writers = <<1>> )
        => /\ WritesOf(e1) = <<[w |-> 1, e |-> e1, err |-> FALSE]>>
           /\ WritesOf(e2) = <<[w |-> 1, e |-> e2, err |-> FALSE]>>
           /\ entries[e1].Action = ActionStart
           /\ entries[e2].Action = ActionComplete
           /\ entries[e2].Output = hist[e2].fields[4].Value.s
           /\ entries[e2].Input = hist[e1].fields[3].Value.s
           /\ entries[e2].Duration >= 0

\* The tracker an Entry of CompleteOperation or ErrorOperation is about:
\* the one whose id the Entry carries as operation_id.
TerminalOps == {"CompleteOperation", "ErrorOperation"}
TrackerIds == 1..Len(trackers)
TrackerOf(e) ==
    CHOOSE t \in TrackerIds : trackers[t].ID = ContextOf(e)["operation_id"].s

\* C11: the duration that the COMPLETE or ERROR event of a tracker reports
\* is the time of the terminal call minus the tracker's start time; it is
\* never negative (the clock never goes back), so it is at least the time
\* that passed between StartOperation and the terminal call.
C11_DurationIsElapsed ==
    \A e \in EntryIds :
        hist[e].op \in TerminalOps =>
            LET duration == ContextOf(e)["duration"] IN
            /\ duration.t = "duration"
            /\ duration.n = entries[e].Timestamp - trackers[TrackerOf(e)].StartTime
            /\ duration.n >= 0

\* Reached: a tracker is completed after time has passed.
C11_Witness ==
    \E e \in EntryIds :
        /\ hist[e].op \in TerminalOps
        /\ entries[e].Timestamp > trackers[TrackerOf(e)].StartTime
        /\ ContextOf(e)["duration"].n >= 1

\* The Entries that carry the given action and operation id.
EventsOf(action, id) ==
    {e \in EntryIds :
        /\ {"action", "operation_id"} \subseteq DOMAIN ContextOf(e)
        /\ ContextOf(e)["action"] = StrV(action)
        /\ ContextOf(e)["operation_id"] = StrV(id)}

\* The maps that something other than tracker t refers to: the fields of
\* the Loggers, the contexts of the Entries, of the other trackers and of
\* the batches.
MapsOutside(t) ==
    {loggers[l].fields : l \in LoggerIds}
        \cup {entries[e].Context : e \in EntryIds}
        \cup {trackers[u].Context : u \in TrackerIds \ {t}}
        \cup {batches[b].Context : b \in 1..Len(batches)}

\* C12: when StartOperation has returned, the new tracker's context holds
\* what the Logger's fields held at the call, in a map of its own, and
\* exactly one START Entry with the tracker's id exists, which was written
\* to every Writer the Logger had, in registration order.
C12_StartOperationSnapshot ==
    last.op = "StartOperation" =>
        LET t == Len(trackers) IN
        /\ t >= 1
        /\ trackers[t].by = [op |-> "StartOperation", from |-> last.l]
        /\ maps[trackers[t].Context] = last.view.fields
        /\ trackers[t].Context \notin MapsOutside(t)
        /\ Cardinality(EventsOf(ActionStart, trackers[t].ID)) = 1
        /\ \A e \in EventsOf(ActionStart, trackers[t].ID) :
               /\ e = last.e0 + 1
               /\ Len(WritesOf(e)) = Len(last.view.writers)
               /\ \A i \in 1..Len(WritesOf(e)) : WritesOf(e)[i].w = last.view.writers[i]

\* Reached: StartOperation on a Logger that has a field and a Writer.
C12_Witness ==
    /\ last.op = "StartOperation"
    /\ DOMAIN last.view.fields # {}
    /\ Len(last.view.writers) >= 1
    /\ Len(writes) > last.w0

\* C13: a tracker made by CreateSubOperation or AddOperation starts with
\* what its creator's context holds, and from then on every context keeps
\* to itself: the context of a tracker changes only by AddContext on that
\* tracker, and the context of a batch only when the caller sets a key of
\* that batch.
C13_ContextsByValue ==
    [][ /\ \A t \in TrackerIds :
               maps'[trackers[t].Context] # maps[trackers[t].Context] =>
                   (last'.op = "AddContext" /\ last'.t = t)
        /\ \A b \in BatchIds :
               maps'[batches[b].Context] # maps[batches[b].Context] =>
                   (last'.op = "SetBatchContext" /\ last'.t = b)
        /\ Len(trackers') > Len(trackers) =>
               LET c == trackers'[Len(trackers')] IN
               /\ c.by.op = "CreateSubOperation" =>
                      maps'[c.Context] = maps[trackers[c.by.from].Context]
               /\ c.by.op = "AddOperation" =>
                      maps'[c.Context] = maps[batches[c.by.from].Context]
      ]_vars

\* Reached: a tracker inherited a key from its batch, and the batch's
\* context has changed since; and (in another run) the same for a child
\* and its parent tracker.
C13_Witness ==
    \E c \in TrackerIds :
        \/ /\ trackers[c].by.op = "AddOperation"
           /\ DOMAIN maps[trackers[c].Context] # {}
           /\ maps[trackers[c].Context] # maps[batches[trackers[c].by.from].Context]
        \/ /\ trackers[c].by.op = "CreateSubOperation"
           /\ maps[trackers[c].Context] # maps[trackers[trackers[c].by.from].Context]

\* C14: when ErrorOperation(tracker, err, resolution) has returned, it has
\* built exactly one Entry: at level ERROR, named after the tracker's
\* operation, carrying action ERROR, the tracker's id and input, and an
\* ErrorInfo with err's message, Retryable false and the given resolution.
C14_ErrorOperationEntry ==
    last.op = "ErrorOperation" =>
        LET e == Len(entries)
            tracker == trackers[last.t]
        IN /\ e = last.e0 + 1
           /\ entries[e].Level = ERROR
           /\ entries[e].Operation = tracker.Operation
           /\ ContextOf(e)["action"] = StrV(ActionError)
           /\ ContextOf(e)["operation_id"] = StrV(tracker.ID)
           /\ ContextOf(e)["input"] = MapV(tracker.Input)
           /\ ContextOf(e)["error"].t = "errorinfo"
           /\ ContextOf(e)["error"].s = last.args[1]
           /\ ContextOf(e)["error"].n = 0
           /\ ContextOf(e)["error"].r = last.args[2]

\* Reached: ErrorOperation with a resolution, on a Logger that has a Writer.
C14_Witness ==
    /\ last.op = "ErrorOperation"
    /\ last.args[2] # ""
    /\ Len(writes) > last.w0

\* C15: a tracker has no terminal-state guard.  Every Complete and every
\* Error call on a tracker builds exactly one Entry, a COMPLETE or an
\* ERROR event of that tracker, whatever calls were made on it before, and
\* changes nothing of the tracker: not its id, operation name, start time
\* or input, and not its context.
C15_NoTerminalGuard ==
    [][ (calls' = calls + 1 /\ last'.op \in TerminalOps) =>
            LET t == last'.t
                ctx == maps'[entries'[Len(entries')].Context]
            IN /\ Len(entries') = Len(entries) + 1
               /\ ctx["action"] = StrV(IF last'.op = "CompleteOperation"
                                       THEN ActionComplete ELSE ActionError)
               /\ ctx["operation_id"] = StrV(trackers[t].ID)
               /\ trackers' = trackers
               /\ maps'[trackers[t].Context] = maps[trackers[t].Context]
      ]_vars

\* Reached: one tracker has a COMPLETE and an ERROR event.
C15_Witness ==
    \E t \in TrackerIds :
        /\ EventsOf(ActionComplete, trackers[t].ID) # {}
        /\ EventsOf(ActionError, trackers[t].ID) # {}

\* The trackers that AddOperation calls on batch b have made.
MembersOf(b) ==
    {t \in TrackerIds : trackers[t].by = [op |-> "AddOperation", from |-> b]}

\* C16: the tracker sequence of a batch only grows at its end, and
\* Complete(summary) on a batch whose Logger lets INFO through builds one
\* Entry whose stats say: total_operations is the number of AddOperation
\* calls made on the batch so far, completed_operations is the same
\* number and failed_operations is 0, whatever was called on the member
\* trackers.  (Below INFO the call is filtered out like any Info call.)
C16_BatchStats ==
    [][ /\ \A b \in BatchIds :
               /\ Len(batches'[b].Operations) >= Len(batches[b].Operations)
               /\ SubSeq(batches'[b].Operations, 1, Len(batches[b].Operations))
                      = batches[b].Operations
        /\ (calls' = calls + 1 /\ last'.op = "BatchComplete") =>
               IF loggers[last'.l].level <= INFO
               THEN LET ctx == maps'[entries'[Len(entries')].Context]
                        stats == maps'[ctx["stats"].n]
                        n == Cardinality(MembersOf(last'.t))
                    IN /\ Len(entries') = Len(entries) + 1
                       /\ ctx["action"] = StrV(ActionComplete)
                       /\ ctx["batch_id"] = StrV(batches[last'.t].ID)
                       /\ stats["total_operations"] = IntV(n)
                       /\ stats["completed_operations"] = IntV(n)
                       /\ stats["failed_operations"] = IntV(0)
               ELSE entries' = entries
      ]_vars

\* Reached: a batch was completed after one of its member trackers failed.
C16_Witness ==
    \E e \in EntryIds, b \in BatchIds :
        /\ hist[e].op = "BatchComplete"
        /\ ContextOf(e)["batch_id"] = StrV(batches[b].ID)
        /\ maps[ContextOf(e)["stats"].n]["total_operations"].n >= 1
        /\ \E t \in MembersOf(b) : EventsOf(ActionError, trackers[t].ID) # {}

\* C17: a Writer that is added to a Logger p does not come into the
\* writer list of a Logger derived from p before: AddWriter(w) on p leaves
\* w out of the list of every Logger derived from p that did not have w.
C17_AddWriterOnParentNotSeenByChild ==
    [][ (calls' = calls + 1 /\ last'.op = "AddWriter") =>
            \A c \in LoggerIds \ {last'.l} :
                (last'.l \in Ancestors(c) /\ last'.t \notin Range(WritersOf(c)))
                    => last'.t \notin Range(WritersOf(c)')
      ]_vars

\* C18: a Writer that is added to a derived Logger c comes into the writer
\* list of c's parent and of every other Logger derived from that parent,
\* so that what they log from then on is written to it.
C18_AddWriterOnChildSeenByAll ==
    [][ (calls' = calls + 1 /\ last'.op = "AddWriter" /\ lineage[last'.l].parent # 0) =>
            LET p == lineage[last'.l].parent IN
            \A l \in LoggerIds :
                (l = p \/ lineage[l].parent = p) => last'.t \in Range(WritersOf(l)')
      ]_vars

\* C19: ExecuteWithRetry with maxAttempts >= 1 invokes fn at most
\* maxAttempts times, never again after an invocation that returned nil,
\* and returns nil if an invocation returned nil, else the error of the
\* last, maxAttempts-th invocation.
C19_RetryBoundedAndResult ==
    retry.maxAttempts >= 1 =>
        /\ Len(retry.fn) <= retry.maxAttempts
        /\ \A i \in 1..Len(retry.fn) : retry.fn[i] = Nil => i = Len(retry.fn)
        /\ retry.at = "done" =>
               IF \E i \in 1..Len(retry.fn) : retry.fn[i] = Nil
               THEN retry.returned = Nil
               ELSE /\ Len(retry.fn) = retry.maxAttempts
                    /\ retry.returned = retry.fn[retry.maxAttempts]

\* Reached: a call has returned the error of its third invocation, which
\* differs from the errors before it.
C19_Witness ==
    /\ retry.at = "done"
    /\ retry.maxAttempts = 3
    /\ Len(retry.fn) = 3
    /\ retry.fn[1] # retry.fn[3]
    /\ retry.returned = retry.fn[3]
    /\ retry.returned # Nil

\* The retry events of the call, in order.
RetryEvents == {e \in EntryIds : hist[e].op = "HandleRetryableError"}

Event(e) ==
    LET ctx == ContextOf(e) IN
    [level |-> entries[e].Level,
     operation |-> entries[e].Operation,
     action |-> IF "action" \in DOMAIN ctx THEN ctx["action"].s ELSE "",
     attempt |-> IF "attempt" \in DOMAIN ctx THEN ctx["attempt"].n ELSE 0,
     code |-> IF "error_code" \in DOMAIN ctx THEN ctx["error_code"].s ELSE ""]

AttemptEvent(k) ==
    [level |-> INFO, operation |-> "op", action |-> "ATTEMPT", attempt |-> k, code |-> ""]
RetryableEvent(k) ==
    [level |-> WARN, operation |-> "retryable_error", action |-> "", attempt |-> k,
     code |-> ""]
MaxRetriesEvent ==
    [level |-> ERROR, operation |-> "error_handled", action |-> "", attempt |-> 0,
     code |-> "MAX_RETRIES_EXCEEDED"]

\* The event that ends attempt k of n.
FailureEvent(k, n) == IF k < n THEN RetryableEvent(k) ELSE MaxRetriesEvent

\* The events of n failed attempts: per attempt an ATTEMPT event and the
\* event that ends it.
AllFailedEvents(n) ==
    [i \in 1..(2 * n) |-> IF i % 2 = 1 THEN AttemptEvent((i + 1) \div 2)
                          ELSE FailureEvent(i \div 2, n)]

\* The same without the ATTEMPT events.
AllFailedEventsAboveInfo(n) == [k \in 1..n |-> FailureEvent(k, n)]

\* All attempts of the call have failed and the loop has ended: the call
\* is about to return lastErr, or has returned it.
RetryAllFailed ==
    /\ retry.maxAttempts >= 1
    /\ \/ retry.at = "loop" /\ retry.attempt > retry.maxAttempts
       \/ retry.at = "done" /\ retry.returned # Nil

\* C21 as stated: when all N >= 1 attempts have failed on a Logger whose
\* minimum level is at most WARN, the events emitted are, per attempt k in
\* order, an ATTEMPT event and then a WARN retryable_error event (k < N) or
\* the ERROR error_handled event with code MAX_RETRIES_EXCEEDED (k = N),
\* all of them before the call returns.
C21_Original ==
    (RetryAllFailed /\ loggers[retry.l].level <= WARN) =>
        [e \in EntryIds |-> Event(e)] = AllFailedEvents(retry.maxAttempts)

\* C21, amended: the ATTEMPT events are logged with Info, so they are
\* emitted when the minimum level is at most INFO; at WARN the events are
\* the N-1 WARN retryable_error events, in order of attempt, followed by
\* the one ERROR error_handled event with code MAX_RETRIES_EXCEEDED, all
\* of them before the call returns.
C21_RetryEventOrder ==
    (RetryAllFailed /\ loggers[retry.l].level <= WARN) =>
        [e \in EntryIds |-> Event(e)] =
            IF loggers[retry.l].level <= INFO
            THEN AllFailedEvents(retry.maxAttempts)
            ELSE AllFailedEventsAboveInfo(retry.maxAttempts)

\* Reached: three attempts have failed on a Logger at WARN and the call is
\* about to return, two retryable_error events and the final event emitted.
C21_Witness ==
    /\ retry.at = "loop"
    /\ retry.attempt > retry.maxAttempts
    /\ retry.maxAttempts = 3
    /\ loggers[retry.l].level = WARN
    /\ Len(entries) = 3
    /\ Event(3) = MaxRetriesEvent

\* The Entries built since the RecoveryHandler call in progress was entered.
RecoveryEntries == {e \in EntryIds : e > recovery.e0}

FatalEvents == {e \in RecoveryEntries : entries[e].Level = FATAL}

\* C23: ExecuteWithPanicRecovery never lets a panic of fn reach its
\* caller: when fn panicked with value v the call has logged exactly one
\* FATAL Entry, panic_recovered with v as panic_value, and returns v; when
\* fn returned normally the call has logged no FATAL Entry and returns nil.
C23_PanicRecovered ==
    recovery.op = "ExecuteWithPanicRecovery" =>
        /\ ~recovery.propagated
        /\ Len(recovery.fn) <= 1
        /\ recovery.at = "done" =>
               /\ Len(recovery.fn) = 1
               /\ IF recovery.fn[1] # Nil
                  THEN /\ recovery.returned = recovery.fn[1]
                       /\ Cardinality(FatalEvents) = 1
                       /\ \A e \in FatalEvents :
                              /\ e = Len(entries)
                              /\ entries[e].Operation = "panic_recovered"
                              /\ ContextOf(e)["panic_value"] = StrV(recovery.fn[1])
                              /\ Len(WritesOf(e)) = 1
                  ELSE /\ recovery.returned = Nil
                       /\ FatalEvents = {}

\* Reached: fn panicked on a Logger at FATAL, and the call returned the
\* panic's value after writing the one FATAL Entry.
C23_Witness ==
    /\ recovery.op = "ExecuteWithPanicRecovery"
    /\ recovery.at = "done"
    /\ recovery.fn = <<"boom">>
    /\ recovery.returned = "boom"
    /\ loggers[recovery.l].level = FATAL
    /\ FatalEvents = {Len(entries)}

\* C24: no call of a Logger method ends in a fault of the Logger's own
\* making, whatever its arguments: ErrorOperation, LogError, LogRetry and
\* LogRecovery with a nil error, and CompleteOperation and ErrorOperation
\* with a nil tracker, return normally (the Writers used here never fail).
C24_NoFaultOfItsOwn == ~last.fault

\* C25: a Logger fresh from New has the system-info switch on and the
\* runtime-info switch off; a Logger made by a With* method starts with
\* the switch values its receiver has at that call; and an Entry is built
\* with a system-info mapping exactly if the system-info switch of the
\* Logger it is logged through is on at that call, and with a runtime-info
\* mapping exactly if the runtime-info switch is on; what an Entry carries
\* does not change afterwards.
C25_InfoFollowsSwitches ==
    [][ /\ calls = 0 =>
               \A l \in LoggerIds :
                   loggers[l].includeSystemInfo /\ ~loggers[l].includeRuntimeInfo
        /\ Len(loggers') > Len(loggers) =>
               LET c == Len(loggers')
                   p == lineage'[c].parent
               IN /\ loggers'[c].includeSystemInfo = loggers[p].includeSystemInfo
                  /\ loggers'[c].includeRuntimeInfo = loggers[p].includeRuntimeInfo
        /\ Len(entries') > Len(entries) =>
               LET e == Len(entries')
                   lg == loggers[hist'[e].via]
               IN /\ (entries'[e].SystemInfo # Nil) <=> lg.includeSystemInfo
                  /\ (entries'[e].RuntimeInfo # Nil) <=> lg.includeRuntimeInfo
        /\ \A e \in EntryIds :
               /\ entries'[e].SystemInfo = entries[e].SystemInfo
               /\ entries'[e].RuntimeInfo = entries[e].RuntimeInfo
      ]_vars

\* Reached: an Entry with both mappings was written through a Logger
\* that was derived after EnableRuntimeInfo(true) on its parent.
C25_Witness ==
    \E e \in EntryIds :
        /\ lineage[hist[e].via].parent # 0
        /\ entries[e].RuntimeInfo # Nil
        /\ entries[e].SystemInfo # Nil
        /\ WritesOf(e) # <<>>

\* The positions of Logger l's writer list that AddWriter calls on l
\* itself have filled: those after the part it had when it was made.
RegisteredOn(l) == (lineage[l].inherited + 1)..Len(WritersOf(l))

\* C26: a Writer registered on a Logger with AddWriter keeps its position
\* in that Logger's writer list whatever is called on any Logger, and an
\* Entry that is built through the Logger is written to every Writer
\* registered on it.
C26_RegisteredWriterStays ==
    [][ /\ \A l \in LoggerIds : \A i \in RegisteredOn(l) :
               /\ Len(WritersOf(l)') >= i
               /\ WritersOf(l)'[i] = WritersOf(l)[i]
        /\ Len(entries') > Len(entries) =>
               LET e == Len(entries') IN
               \A i \in RegisteredOn(hist'[e].via) :
                   \E j \in 1..Len(writes') :
                       /\ writes'[j].e = e
                       /\ writes'[j].w = WritersOf(hist'[e].via)[i]
      ]_vars

\* The Entries that were handed to a Writer.
Dispatched == {e \in EntryIds : WritesOf(e) # <<>>}

\* C27: whatever made a tracker (StartOperation, CreateSubOperation,
\* AddOperation) and whatever the Logger's minimum level, every dispatched
\* COMPLETE or ERROR Entry with the tracker's operation id comes after a
\* dispatched START Entry with that operation id.
C27_TerminalAfterStart ==
    \A t \in TrackerIds :
        \A e \in (EventsOf(ActionComplete, trackers[t].ID)
                      \cup EventsOf(ActionError, trackers[t].ID)) \cap Dispatched :
            \E s \in EventsOf(ActionStart, trackers[t].ID) \cap Dispatched : s < e

\* A SetLevel call on Logger l has been entered and has not returned.
SetLevelInProgress(l) ==
    \E u \in Threads : pc[u].op = "SetLevel" /\ pc[u].l = l /\ pc[u].at # "idle"

\* C28: when a level-method call on a Logger enters a Writer's Write and
\* every SetLevel call made on that Logger has returned, the Entry it
\* hands over is not below the level the Logger has, which is the level of
\* the SetLevel call that returned last: the level check and the dispatch
\* of one call see the same level.
C28_NoDispatchBelowSetLevel ==
    [][ \A t \in Threads :
            ( /\ pc'[t].at = "Write"
              /\ pc'[t] # pc[t]
              /\ pc'[t].op \in LevelOps
              /\ ~SetLevelInProgress(pc'[t].l) )
            => entries'[pc'[t].e].Level >= loggers[pc'[t].l].level
      ]_vars

\* C29: what a Writer that has no formatter of its own writes out for an
\* Entry logged through a Logger on which SetFormatter(f) was called is
\* formatted by f, the Logger's default formatter.
C29_LoggerFormatterIsDefault ==
    [][ \A i \in (Len(written) + 1)..Len(written') :
            LET o == written'[i]
                l == hist'[o.e].via
            IN (wformatter[o.w] = Nil /\ loggers[l].formatter # Nil)
                   => o.formatter = loggers[l].formatter
      ]_vars

\* The level and the two info switches of a Logger value.
Settings(lg) ==
    <<lg.level, lg.includeSystemInfo, lg.includeRuntimeInfo>>

SettingOps == {"SetLevel", "EnableSystemInfo", "EnableRuntimeInfo"}

\* C30: a derived Logger's level and info switches are its own copies:
\* a Logger made by a With* method starts with the level and switches its
\* receiver has at that call; afterwards the level and switches of a Logger
\* change only in SetLevel, EnableSystemInfo or EnableRuntimeInfo called on
\* that very Logger (calls on its parent or on a Logger derived from it
\* leave them alone); and a level method filters by, and an Entry is
\* built with, the level and switches of the Logger it is called on.
C30_SettingsAreOwn ==
    [][ /\ Len(loggers') > Len(loggers) =>
               LET c == Len(loggers')
               IN Settings(loggers'[c]) = Settings(loggers[lineage'[c].parent])
        /\ \A l \in LoggerIds :
               Settings(loggers'[l]) # Settings(loggers[l]) =>
                   /\ last'.l = l
                   /\ last'.op \in SettingOps
        /\ (calls' > calls /\ last'.op \in LevelOps) =>
               LET lg == loggers[last'.l] IN
               IF lg.level <= last'.level
               THEN /\ Len(entries') = Len(entries) + 1
                    /\ hist'[Len(entries')].via = last'.l
                    /\ (entries'[Len(entries')].SystemInfo # Nil)
                           <=> lg.includeSystemInfo
                    /\ (entries'[Len(entries')].RuntimeInfo # Nil)
                           <=> lg.includeRuntimeInfo
               ELSE entries' = entries
      ]_vars

\* Reached: c was derived from p, then SetLevel(ERROR) was called on p, and
\* an Info through c still built an Entry, with the switches c was made with.
C30_Witness ==
    \E c \in LoggerIds :
        /\ lineage[c].parent # 0
        /\ loggers[lineage[c].parent].level = ERROR
        /\ loggers[c].level = INFO
        /\ last.op = "Info" /\ last.l = c
        /\ Len(entries) = last.e0 + 1
        /\ hist[Len(entries)].via = c
        /\ entries[Len(entries)].SystemInfo # Nil

\* ------------------------------------------------------ vibe trackers
\* A VibeTracker made with NewVibeTracker(l, "s1", "web", "test") is known
\* by its Logger l; its session strings are fixed.
\* LogTestResult(testName, passed, output, duration): logLevel is INFO, or
\* ERROR if !passed; only `if logLevel == ERROR` is there a call, of
\* vt.Logger.Error("test_result", ...).  Nothing is logged for a test that
\* passed.
LogTestResult(l, testName, passed, duration) ==
    /\ CalledWith("LogTestResult", l, IF passed THEN INFO ELSE ERROR, 0,
                  <<testName, IF passed THEN "PASSED" ELSE "FAILED">>)
    /\ IF ~passed /\ loggers[l].level <= ERROR
       THEN /\ log(l, ERROR, "test_result",
                   <<FieldString("session_id", "s1"),
                     FieldString("problem_domain", "web"),
                     FieldString("programming_step", "test"),
                     FieldString("test_name", testName),
                     FieldString("result", "FAILED"),
                     FieldString("output", "out"),
                     FieldDuration("duration", duration)>>,
                   maps, uuids, "LogTestResult")
            /\ UNCHANGED <<loggers, warrs, trackers, batches, clock, lineage>>
       ELSE Filtered

\* LogThinkingProcess(thoughts, considerations): vt.Logger.Info("thinking_process", ...).
LogThinkingProcess(l, thoughts) ==
    /\ Called("LogThinkingProcess", l, INFO)
    /\ InfoFrom(l, "thinking_process",
           <<FieldString("session_id", "s1"),
             FieldString("problem_domain", "web"),
             FieldString("programming_step", "test"),
             FieldString("thoughts", thoughts)>>,
           maps, uuids, "LogThinkingProcess")
    /\ UNCHANGED <<loggers, warrs, trackers, batches, clock, lineage>>

\* A coding session: for a Logger made with New(level), for any level,
\* that has one Writer, the application notes thoughts and test results.
TestNames == {"TestA", "TestB"}

VibeNext ==
    \/ \E l \in LoggerIds, testName \in TestNames, passed \in BOOLEAN,
          duration \in 0..1 : LogTestResult(l, testName, passed, duration)
    \/ \E l \in LoggerIds : LogThinkingProcess(l, "idea")

VibeSpec == RecoveryInit /\ [][VibeNext]_vars

\* C31: every call of LogTestResult that the Logger's level lets through
\* adds exactly one Entry named test_result: at INFO level if passed is
\* true (and the level is INFO or lower), at ERROR level if passed is
\* false (and the level is ERROR or lower).
C31_TestResultRecorded ==
    [][ (calls' > calls /\ last'.op = "LogTestResult"
            /\ loggers[last'.l].level <= last'.level) =>
           /\ Len(entries') = Len(entries) + 1
           /\ entries'[Len(entries')].Operation = "test_result"
           /\ entries'[Len(entries')].Level = last'.level
           /\ hist'[Len(entries')].via = last'.l
      ]_vars

\* A caller that passes any maxAttempts to ExecuteWithRetry, among them 0
\* and negative numbers (maxAttempts is a Go int).
MinAttempts == -1

RetryAnyNext ==
    \/ \E l \in LoggerIds, maxAttempts \in MinAttempts..MaxAttempts, backoff \in Backoffs :
           ExecuteWithRetry(l, maxAttempts, backoff)
    \/ RetryAttempt
    \/ \E err \in {Nil} \cup FnErrs : RetryCallFn(err)
    \/ RetrySuccess
    \/ HandleRetryableError
    \/ RetrySleep
    \/ HandleMaxRetriesExceeded
    \/ RetryReturn

RetryAnySpec == RetryInit /\ [][RetryAnyNext]_vars

\* C32: ExecuteWithRetry returns nil only if some invocation of fn
\* returned nil, whatever maxAttempts is (0 and negative values included).
C32_NilOnlyAfterSuccess ==
    (retry.at = "done" /\ retry.returned = Nil) =>
        \E i \in 1..Len(retry.fn) : retry.fn[i] = Nil

\* An application whose Logger (New(INFO), one Writer) gets fields with
\* WithField, and whose trackers get context of their own with AddContext:
\* under a key the Logger's fields may hold too, with a value ("tv") that
\* only trackers hold.
TrackerValue == StrV("tv")

ContextNext ==
    \/ \E l \in LoggerIds : WithField(l, "k1", StrV("v1"))
    \/ \E l \in LoggerIds, input \in InputMaps : StartOperation(l, "op", input)
    \/ \E t \in 1..Len(trackers), input \in InputMaps : CreateSubOperation(t, "sub", input)
    \/ \E t \in 1..Len(trackers), key \in Keys : AddContext(t, key, TrackerValue)
    \/ \E t \in 1..Len(trackers), output \in OutputMaps : TrackerComplete(t, output)
    \/ \E t \in 1..Len(trackers), err \in Errs : TrackerError(t, err, "fix")
    \/ \E l \in LoggerIds : NewBatchOperationTracker(l, "batch")
    \/ \E b \in BatchIds, key \in Keys : SetBatchContext(b, key, TrackerValue)
    \/ \E b \in BatchIds, input \in InputMaps : AddOperation(b, "member", input)

ContextSpec == SwitchInit /\ [][ContextNext]_vars

\* The keys of the fields that each tracker event is logged with.
TrackerEventKeys(op) ==
    CASE op = "CompleteOperation" ->
             {"action", "operation_id", "input", "output", "duration"}
      [] op = "ErrorOperation" ->
             {"action", "operation_id", "input", "error", "duration"}
      [] op = "CreateSubOperation" ->
             {"action", "operation_id", "parent_id", "input"}
      [] op = "AddOperation" ->
             {"action", "operation_id", "batch_id", "batch_name", "input"}
      [] OTHER -> {}

TrackerEventOps ==
    {"CompleteOperation", "ErrorOperation", "CreateSubOperation", "AddOperation"}

\* C33: the Entry of a COMPLETE or ERROR event, and of the START of
\* CreateSubOperation and AddOperation, gets its context from the fields
\* its Logger has accumulated at that call, overlaid by the event's fixed
\* fields, in a map that no tracker or batch refers to; so no value that
\* was only ever given to AddContext (or put into a batch's context) is in
\* a dispatched Entry, and a later AddContext changes no dispatched Entry.
C33_TrackerContextNotLogged ==
    [][ /\ (Len(entries') > Len(entries)
               /\ hist'[Len(entries')].op \in TrackerEventOps) =>
               LET e == Len(entries')
                   l == hist'[e].via
                   fields == hist'[e].fields
               IN /\ {fields[i].Key : i \in DOMAIN fields}
                         = TrackerEventKeys(hist'[e].op)
                  /\ \A i \in DOMAIN fields : fields[i].Value.t # "map" \/ fields[i].Value.n = 0
                  /\ maps'[entries'[e].Context]
                         = overlayFields(maps[loggers[l].fields], fields)
                  /\ entries'[e].Context \notin
                         {trackers'[t].Context : t \in 1..Len(trackers')}
                             \cup {batches'[b].Context : b \in 1..Len(batches')}
        /\ \A e \in EntryIds :
               /\ maps'[entries'[e].Context] = maps[entries[e].Context]
               /\ \A k \in DOMAIN ContextOf(e) : ContextOf(e)[k] # TrackerValue
      ]_vars

\* Reached: a tracker was given k2 with AddContext and then completed; the
\* COMPLETE Entry was written and has no k2.
C33_Witness ==
    \E e \in EntryIds :
        /\ hist[e].op = "CompleteOperation"
        /\ "k2" \in DOMAIN maps[trackers[TrackerOf(e)].Context]
        /\ maps[trackers[TrackerOf(e)].Context]["k2"] = TrackerValue
        /\ "k2" \notin DOMAIN ContextOf(e)
        /\ WritesOf(e) # <<>>

\* ------------------------------------------------- BufferedFileWriter
MaxBufferSize == 2     \* the largest bufferSize given to NewBufferedFileWriter
MaxWriterCalls == 4    \* calls made on one file writer

\* The part of the state that belongs to the Logger, with nothing going on:
\* the application uses a file writer directly.
LoggerAtRest ==
    /\ loggers = <<New(INFO, 1)>>
    /\ maps = <<EmptyMap>>
    /\ tarrs = <<>>
    /\ warrs = <<>>
    /\ entries = <<>>
    /\ trackers = <<>>
    /\ batches = <<>>
    /\ uuids = 0
    /\ clock = 0
    /\ writes = <<>>
    /\ wformatter = [w \in AllWriters |-> Nil]
    /\ written = <<>>
    /\ reported = 0
    /\ calls = 0
    /\ hist = <<>>
    /\ lineage = <<[parent |-> 0, op |-> "New", fields |-> EmptyMap, tags |-> <<>>,
                    inherited |-> 0]>>
    /\ last = LastCall("New", 1, -1)
    /\ mu = <<Unlocked>>
    /\ pc = [t \in Threads |-> Idle]
    /\ retry = NoRetry
    /\ recovery = NoRecovery

LoggerFrame == <<loggers, maps, tarrs, warrs, entries, trackers, batches, uuids, clock,
                 writes, wformatter, written, reported, calls, hist, lineage, last, mu,
                 pc, retry, recovery>>

\* NewBufferedFileWriter(filename, bufferSize): the file is opened, the
\* buffer is empty.
NewBufferedFileWriter(bufferSize) == [NoBuffered EXCEPT !.bufferSize = bufferSize]

\* What the file system does during one flush: file.Write fails at the
\* failAt-th entry it is given (0: at none), and file.Sync fails or not.
FlushOutcomes == [failAt : 0..MaxBufferSize + 1, syncErr : BOOLEAN]

\* Mutant of flush: the buffer is not emptied.
flushKeepBuffer(w, io) ==
    IF Len(w.buffer) = 0 THEN [w |-> w, err |-> Nil]
    ELSE LET failAt == IF w.closed THEN 1 ELSE io.failAt IN
         IF failAt \in 1..Len(w.buffer)
         THEN [w |-> [w EXCEPT !.file = @ \o SubSeq(w.buffer, 1, failAt - 1)],
               err |-> "write error"]
         ELSE [w |-> [w EXCEPT !.file = @ \o w.buffer],
               err |-> IF io.syncErr \/ w.closed THEN "sync error" ELSE Nil]

\* flush(): nil for an empty buffer; else file.Write of each buffered
\* entry in order, returning at the first error with the buffer as it was;
\* then w.buffer = w.buffer[:0] and return w.file.Sync().  Every write to a
\* closed file fails.
flush(w, io) ==
    IF Len(w.buffer) = 0 THEN [w |-> w, err |-> Nil]
    ELSE LET failAt == IF w.closed THEN 1 ELSE io.failAt IN
         IF failAt \in 1..Len(w.buffer)
         THEN [w |-> [w EXCEPT !.file = @ \o SubSeq(w.buffer, 1, failAt - 1)],
               err |-> "write error"]
         ELSE [w |-> [w EXCEPT !.file = @ \o w.buffer, !.buffer = <<>>],
               err |-> IF io.syncErr \/ w.closed THEN "sync error" ELSE Nil]

\* A call on the BufferedFileWriter that leaves it as w and returns ret.
BufferedCall(op, w, ret) ==
    /\ buffered.bufferSize >= 1
    /\ buffered.calls < MaxWriterCalls
    /\ buffered' = [w EXCEPT !.calls = buffered.calls + 1, !.op = op, !.ret = ret]
    /\ UNCHANGED <<LoggerFrame, rotating, collector>>

\* Write(entry): Format (an error is returned); the formatted entry is
\* appended to the buffer; if len(w.buffer) >= w.bufferSize, return w.flush().
BufferedWrite(formatErr, io) ==
    IF formatErr THEN BufferedCall("Write", buffered, "format error")
    ELSE LET w == [buffered EXCEPT !.buffer = Append(@, buffered.accepted + 1),
                                   !.accepted = @ + 1]
             f == flush(w, io)
         IN IF Len(w.buffer) >= w.bufferSize
            THEN BufferedCall("Write", f.w, f.err)
            ELSE BufferedCall("Write", w, Nil)

\* Flush(): return w.flush(), under the lock.
BufferedFlush(io) ==
    LET f == flush(buffered, io) IN BufferedCall("Flush", f.w, f.err)

\* Close(): Flush, whose error is returned; then FileWriter.Close, which
\* returns w.file.Close(): an error for a file that is closed already,
\* and closeErr otherwise.
BufferedClose(io, closeErr) ==
    LET f == flush(buffered, io) IN
    IF f.err # Nil THEN BufferedCall("Close", f.w, f.err)
    ELSE BufferedCall("Close", [f.w EXCEPT !.closed = TRUE],
                      IF f.w.closed THEN "file already closed"
                      ELSE IF closeErr THEN "close error" ELSE Nil)

\* An application that makes a BufferedFileWriter with a bufferSize of at
\* least 1 and calls Write, Flush and Close on it, one call after the
\* other, on a file system that may fail.
BufferedInit ==
    /\ LoggerAtRest
    /\ \E bufferSize \in 1..MaxBufferSize : buffered = NewBufferedFileWriter(bufferSize)
    /\ rotating = NoRotating
    /\ collector = NoCollector

BufferedNext ==
    \/ \E formatErr \in BOOLEAN, io \in FlushOutcomes : BufferedWrite(formatErr, io)
    \/ \E io \in FlushOutcomes : BufferedFlush(io)
    \/ \E io \in FlushOutcomes, closeErr \in BOOLEAN : BufferedClose(io, closeErr)

BufferedSpec == BufferedInit /\ [][BufferedNext]_vars

\* The entries that have been written to the file.
InFile(w) == {w.file[i] : i \in 1..Len(w.file)}

\* C34: for a BufferedFileWriter with bufferSize >= 1: after a Write that
\* returns nil fewer than bufferSize entries are buffered; a flush (in
\* Flush, or in a Write that fills the buffer) that returns nil has added
\* the buffered entries to the file in the order they were accepted and
\* left the buffer empty; and after a Close that returns nil every entry
\* that was accepted is in the file, nothing is buffered and the file is
\* closed.
C34_BufferedWriterFlushes ==
    [][ buffered'.calls = buffered.calls + 1 =>
          /\ (buffered'.op = "Write" /\ buffered'.ret = Nil) =>
                 /\ Len(buffered'.buffer) < buffered.bufferSize
                 /\ buffered'.accepted = buffered.accepted + 1
                 /\ IF Len(buffered.buffer) + 1 >= buffered.bufferSize
                    THEN /\ buffered'.file = buffered.file \o
                                 Append(buffered.buffer, buffered'.accepted)
                         /\ buffered'.buffer = <<>>
                    ELSE /\ buffered'.file = buffered.file
                         /\ buffered'.buffer = Append(buffered.buffer, buffered'.accepted)
          /\ (buffered'.op = "Flush" /\ buffered'.ret = Nil) =>
                 /\ buffered'.file = buffered.file \o buffered.buffer
                 /\ buffered'.buffer = <<>>
          /\ (buffered'.op = "Close" /\ buffered'.ret = Nil) =>
                 /\ buffered'.file = buffered.file \o buffered.buffer
                 /\ buffered'.buffer = <<>>
                 /\ buffered'.closed /\ ~buffered.closed
                 /\ InFile(buffered') = 1..buffered'.accepted
      ]_vars

\* Reached: with bufferSize 2, three entries were accepted, the second
\* Write flushed two of them, and a Close that returned nil wrote the third.
C34_Witness ==
    /\ buffered.bufferSize = 2
    /\ buffered.op = "Close" /\ buffered.ret = Nil
    /\ buffered.file = <<1, 2, 3>>
    /\ buffered.closed

\* How many times entry id has been written to the file.
TimesWritten(w, id) == Cardinality({i \in 1..Len(w.file) : w.file[i] = id})

\* C35: whatever Write, Flush and Close calls are made, and whichever of
\* their file writes fail, the BufferedFileWriter writes no accepted entry
\* to the file more than once.
C35_WrittenAtMostOnce ==
    \A id \in 1..buffered.accepted : TimesWritten(buffered, id) <= 1

\* ------------------------------------------------- RotatingFileWriter
MaxSize == 2           \* the largest maxSize given to NewRotatingFileWriter
MaxFiles == 2          \* the largest maxFiles given to NewRotatingFileWriter
Lens == 1..(MaxSize + 1)   \* the lengths of formatted entries

\* os.Remove(name) and os.Rename(old, new) on the log files; the names are
\* the backup numbers (0: baseFilename).  Rename replaces an existing file.
Remove(files, i) == [j \in (DOMAIN files) \ {i} |-> files[j]]
Rename(files, old, new) ==
    [j \in ((DOMAIN files) \ {old}) \cup {new} |->
        IF j = new THEN files[old] ELSE files[j]]

\* for i := w.maxFiles - 1; i >= 1; i-- { if i == w.maxFiles-1 { os.Remove(base.(i+1)) };
\* if base.i exists { os.Rename(base.i, base.(i+1)) } }
RECURSIVE RenameBackups(_, _, _)
RenameBackups(files, maxFiles, i) ==
    IF i < 1 THEN files
    ELSE LET f1 == IF i = maxFiles - 1 THEN Remove(files, i + 1) ELSE files
             f2 == IF i \in DOMAIN f1 THEN Rename(f1, i, i + 1) ELSE f1
         IN RenameBackups(f2, maxFiles, i - 1)

\* openCurrentFile: os.OpenFile(base, O_CREATE|O_WRONLY|O_APPEND); w.currentSize = stat.Size().
openCurrentFile(w) ==
    LET fresh == 0 \notin DOMAIN w.files
        files == IF fresh
                 THEN [j \in (DOMAIN w.files) \cup {0} |->
                          IF j = 0 THEN [size |-> 0, made |-> w.made + 1] ELSE w.files[j]]
                 ELSE w.files
    IN [w EXCEPT !.files = files,
                 !.made = IF fresh THEN @ + 1 ELSE @,
                 !.currentSize = files[0].size,
                 !.sizeAtOpen = files[0].size,
                 !.sinceOpen = 0]

\* rotate: the current file is closed, the backups are renamed, base is
\* renamed to base.1 if it exists, and the current file is opened anew.
rotate(w) ==
    LET f1 == RenameBackups(w.files, w.maxFiles, w.maxFiles - 1)
        f2 == IF 0 \in DOMAIN f1 THEN Rename(f1, 0, 1) ELSE f1
    IN openCurrentFile([w EXCEPT !.files = f2, !.rotations = @ + 1])

\* NewRotatingFileWriter(baseFilename, maxSize, maxFiles), in a directory
\* that holds the files.
NewRotatingFileWriter(files, maxSize, maxFiles) ==
    openCurrentFile([NoRotating EXCEPT !.maxSize = maxSize, !.maxFiles = maxFiles,
                                       !.files = files, !.made = Cardinality(DOMAIN files)])

\* A call on the RotatingFileWriter that leaves it as w and returns ret.
RotatingCall(op, w, len, ret) ==
    /\ rotating.maxSize >= 1
    /\ rotating.calls < MaxWriterCalls
    /\ rotating' = [w EXCEPT !.calls = rotating.calls + 1, !.op = op, !.len = len,
                             !.ret = ret]
    /\ UNCHANGED <<LoggerFrame, buffered, collector>>

\* The file after n bytes were appended to the current file.
Appended(w, n) ==
    [w EXCEPT !.files[0].size = @ + n, !.currentSize = @ + n, !.sinceOpen = @ + n]

\* Mutant of RotatingWrite: the check leaves out the length of the entry.
RotatingWriteSizeOnly(len, formatErr, writeErr, syncErr) ==
    IF formatErr THEN RotatingCall("Write", rotating, len, "format error")
    ELSE LET w == IF rotating.currentSize > rotating.maxSize
                  THEN rotate(rotating) ELSE rotating
         IN IF writeErr THEN RotatingCall("Write", w, len, "write error")
            ELSE RotatingCall("Write", Appended(w, len), len,
                              IF syncErr THEN "sync error" ELSE Nil)

\* Write(entry): Format (an error is returned); if w.currentSize +
\* len(formatted) > w.maxSize, rotate; n, err := w.currentFile.Write(formatted)
\* (an error is returned, and nothing was written); w.currentSize += n;
\* return w.currentFile.Sync().
RotatingWrite(len, formatErr, writeErr, syncErr) ==
    IF formatErr THEN RotatingCall("Write", rotating, len, "format error")
    ELSE LET w == IF rotating.currentSize + len > rotating.maxSize
                  THEN rotate(rotating) ELSE rotating
         IN IF writeErr THEN RotatingCall("Write", w, len, "write error")
            ELSE RotatingCall("Write", Appended(w, len), len,
                              IF syncErr THEN "sync error" ELSE Nil)

\* An application that makes a RotatingFileWriter, in a directory where
\* the base file is absent or left over from an earlier run, and writes
\* entries with it.  Opening, renaming and removing files succeed; a write
\* to the file succeeds as a whole or fails as a whole.
RotatingInit ==
    /\ LoggerAtRest
    /\ buffered = NoBuffered
    /\ collector = NoCollector
    /\ \E maxSize \in 1..MaxSize, maxFiles \in 0..MaxFiles, size \in 0..(MaxSize + 1) :
          rotating \in
              { NewRotatingFileWriter(<<>>, maxSize, maxFiles),
                NewRotatingFileWriter([j \in {0} |-> [size |-> size, made |-> 1]],
                                      maxSize, maxFiles) }

RotatingNext ==
    \E len \in Lens, formatErr, writeErr, syncErr \in BOOLEAN :
        RotatingWrite(len, formatErr, writeErr, syncErr)

RotatingSpec == RotatingInit /\ [][RotatingNext]_vars

C37_AtMostMaxFiles ==
    rotating.maxFiles >= 1 =>
        /\ Cardinality(DOMAIN rotating.files) <= rotating.maxFiles
        /\ \A i, j \in (DOMAIN rotating.files) \ {0} :
               i < j => rotating.files[j].made < rotating.files[i].made

\* ------------------------------------------------ SystemInfoCollector
CacheExpiry == 1          \* cacheExpiry (5 minutes), in ticks of the clock
MaxCollectorCalls == 3    \* calls made on the collector

CollectorFrame == <<loggers, maps, tarrs, warrs, entries, trackers, batches, uuids,
                    writes, wformatter, written, reported, calls, hist, lineage, last,
                    mu, pc, retry, recovery, buffered, rotating>>

\* sic.cache != nil && time.Since(sic.lastCollected) < sic.cacheExpiry
CacheFresh(cache) == cache # 0 /\ clock - collector.lastCollected < CacheExpiry

\* Goroutine t calls GetSystemInfo or GetEnvironmentInfo.
CollectorCall(t, op) ==
    /\ collector.th[t].at = "idle"
    /\ collector.calls < MaxCollectorCalls
    /\ collector' = [collector EXCEPT
           !.calls = @ + 1,
           !.th[t] = [NoCollectorCall EXCEPT
                         !.at = IF op = "GetSystemInfo" THEN "rlock" ELSE "env rlock"]]
    /\ UNCHANGED <<CollectorFrame, clock>>

\* sic.mu.RLock()
CollectorRLock(t) ==
    /\ collector.th[t].at \in {"rlock", "env rlock"}
    /\ collector.mu.writer = 0
    /\ collector' = [collector EXCEPT
           !.mu.readers = @ \cup {t},
           !.th[t].at = IF @ = "rlock" THEN "check" ELSE "env check"]
    /\ UNCHANGED <<CollectorFrame, clock>>

\* if cache is fresh { defer sic.mu.RUnlock(); return sic.cache }; sic.mu.RUnlock()
CollectorCheck(t) ==
    /\ collector.th[t].at = "check"
    /\ collector' = [collector EXCEPT
           !.mu.readers = @ \ {t},
           !.th[t] = IF CacheFresh(collector.cache)
                     THEN [@ EXCEPT !.at = "idle", !.hit = TRUE,
                                    !.seen = Len(collector.collectedAt),
                                    !.ret = collector.cache, !.retAt = clock]
                     ELSE [@ EXCEPT !.at = "lock",
                                    !.seen = Len(collector.collectedAt)]]
    /\ UNCHANGED <<CollectorFrame, clock>>

\* sic.mu.Lock()
CollectorLock(t) ==
    /\ collector.th[t].at \in {"lock", "env lock"}
    /\ collector.mu = Unlocked
    /\ collector' = [collector EXCEPT
           !.mu.writer = t,
           !.th[t].at = IF @ = "lock" THEN "recheck" ELSE "env collect"]
    /\ UNCHANGED <<CollectorFrame, clock>>

\* Mutant of CollectorRecheck: no second check under the write lock.
CollectorRecheckSkipped(t) ==
    /\ collector.th[t].at = "recheck"
    /\ collector' = [collector EXCEPT !.th[t].at = "collect"]
    /\ UNCHANGED <<CollectorFrame, clock>>

\* The double check: if the cache is fresh { return sic.cache } (the
\* deferred Unlock runs).
CollectorRecheck(t) ==
    /\ collector.th[t].at = "recheck"
    /\ collector' = IF CacheFresh(collector.cache)
                    THEN [collector EXCEPT
                             !.mu.writer = 0,
                             !.th[t].at = "idle",
                             !.th[t].ret = collector.cache,
                             !.th[t].retAt = clock]
                    ELSE [collector EXCEPT !.th[t].at = "collect"]
    /\ UNCHANGED <<CollectorFrame, clock>>

\* sic.cache = sic.collectSystemInfo(): a new snapshot.
CollectorCollect(t) ==
    /\ collector.th[t].at = "collect"
    /\ collector' = [collector EXCEPT
           !.cache = Len(collector.collectedAt) + 1,
           !.th[t].at = "stamp",
           !.th[t].collected = TRUE]
    /\ UNCHANGED <<CollectorFrame, clock>>

\* sic.lastCollected = time.Now(); return sic.cache (the deferred Unlock runs).
CollectorStamp(t) ==
    /\ collector.th[t].at = "stamp"
    /\ collector' = [collector EXCEPT
           !.lastCollected = clock,
           !.collectedAt = Append(@, clock),
           !.mu.writer = 0,
           !.th[t].at = "idle",
           !.th[t].ret = collector.cache,
           !.th[t].retAt = clock]
    /\ UNCHANGED <<CollectorFrame, clock>>

\* GetEnvironmentInfo: if envCache is fresh { defer RUnlock; return envCache }; RUnlock.
CollectorEnvCheck(t) ==
    /\ collector.th[t].at = "env check"
    /\ collector' = [collector EXCEPT
           !.mu.readers = @ \ {t},
           !.th[t].at = IF CacheFresh(collector.envCache) THEN "idle" ELSE "env lock"]
    /\ UNCHANGED <<CollectorFrame, clock>>

\* sic.envCache = sic.collectEnvironmentInfo(); return sic.envCache (no
\* second check, and lastCollected is not set).
CollectorEnvCollect(t) ==
    /\ collector.th[t].at = "env collect"
    /\ collector' = [collector EXCEPT
           !.envCache = collector.envCollections + 1,
           !.envCollections = @ + 1,
           !.mu.writer = 0,
           !.th[t].at = "idle"]
    /\ UNCHANGED <<CollectorFrame, clock>>

\* Goroutines that call GetSystemInfo and GetEnvironmentInfo on one
\* SystemInfoCollector while time passes.
CollectorNext ==
    \/ \E t \in Threads, op \in {"GetSystemInfo", "GetEnvironmentInfo"} : CollectorCall(t, op)
    \/ \E t \in Threads : CollectorRLock(t)
    \/ \E t \in Threads : CollectorCheck(t)
    \/ \E t \in Threads : CollectorLock(t)
    \/ \E t \in Threads : CollectorRecheck(t)
    \/ \E t \in Threads : CollectorCollect(t)
    \/ \E t \in Threads : CollectorStamp(t)
    \/ \E t \in Threads : CollectorEnvCheck(t)
    \/ \E t \in Threads : CollectorEnvCollect(t)
    \/ Tick

CollectorInit ==
    /\ LoggerAtRest
    /\ buffered = NoBuffered
    /\ rotating = NoRotating
    /\ collector = NoCollector

CollectorSpec == CollectorInit /\ [][CollectorNext]_vars

\* The goroutines whose latest GetSystemInfo call has returned.
Returned == {t \in Threads : collector.th[t].at = "idle" /\ collector.th[t].ret # 0}

\* C38: GetSystemInfo collects at most once per freshness window: two
\* collections are at least cacheExpiry apart; a call that finds the cache
\* fresh returns the cached snapshot and collects nothing; a call that
\* finds it missing or expired returns a snapshot collected after it
\* looked, which it has collected itself exactly if no other goroutine
\* did so in the meantime, and which is fresh when it is returned; so of
\* the goroutines that miss the same snapshot and return the same one,
\* exactly one has collected.
C38_CollectsOncePerWindow ==
    /\ \A k \in 2..Len(collector.collectedAt) :
           collector.collectedAt[k] - collector.collectedAt[k - 1] >= CacheExpiry
    /\ collector.cache \in {Len(collector.collectedAt), Len(collector.collectedAt) + 1}
    /\ \A t \in Returned :
           LET c == collector.th[t] IN
           /\ c.ret \in 1..Len(collector.collectedAt)
           /\ c.retAt - collector.collectedAt[c.ret] < CacheExpiry
           /\ c.hit => (c.ret = c.seen /\ ~c.collected)
           /\ ~c.hit => c.ret > c.seen
    /\ \A t, u \in Returned :
           LET c == collector.th[t]
               d == collector.th[u]
           IN (t # u /\ ~c.hit /\ ~d.hit /\ c.ret = d.ret /\ c.seen = d.seen)
                  => (c.collected # d.collected)

\* Reached: two goroutines found the cache missing at the same time; one
\* collected, and both returned its snapshot.
C38_Witness ==
    /\ Returned = Threads
    /\ \A t \in Threads : ~collector.th[t].hit /\ collector.th[t].seen = 0
                             /\ collector.th[t].ret = 1
    /\ \E t \in Threads : collector.th[t].collected
    /\ \E t \in Threads : ~collector.th[t].collected
    /\ Len(collector.collectedAt) = 1

====
